---------------------------- MODULE Spec2Model ----------------------------
(***************************************************************************)
(* Model of the task orchestrator of app/agents/agent_hub.py (AgentHub)    *)
(* together with the parts of the message router, the agent registry, the  *)
(* conversation log (app/database/db_manager.py) and the task planner      *)
(* (app/planning/task_planner.py) that the orchestrator drives.            *)
(*                                                                         *)
(* Modelling conventions                                                   *)
(*  - uuid4-derived identifiers (task ids, discussion ids, agent ids,      *)
(*    planner task ids) are modelled as fresh values drawn from counters.  *)
(*  - A worker's receive_message is an opaque capability: it returns one   *)
(*    of a small set of non-empty texts or raises.  A write to the         *)
(*    conversation log (record_conversation) either appends a row or       *)
(*    raises.  The number of raised faults per behaviour is bounded.       *)
(*  - Texts are records; a reply is a sequence of words, and the keyword   *)
(*    test of evaluate_quality is Python's substring test on them.         *)
(*  - A float score p/t is the pair [num |-> p, den |-> t].                *)
(*  - Object construction is not modelled: initialize_team leaves the hub  *)
(*    with a task planner, as lines 689-690 intend.                        *)
(*  - Each caller ("flow") is an asyncio task; a flow's frame holds the    *)
(*    position and the locals of the coroutine it is running.              *)
(*  - The agents dict is the set of its keys (agents) together with, per   *)
(*    key, the registered object and the key's rank in insertion order     *)
(*    (handle).                                                            *)
(*  - time.time() reads an integer clock (now) that Tick advances.         *)
(*                                                                         *)
(* Specifications                                                          *)
(*  Spec         the orchestrator: teams, tasks, execute_task,             *)
(*               improve_task_results, initiate_discussion                 *)
(*  SpecQuality  evaluate_quality applied to critiques of every shape      *)
(*  SpecRouter   register_agent, unregister_agent, send_message,           *)
(*               broadcast_message called directly                         *)
(*  SpecRegistry register_agent, unregister_agent, initialize_team         *)
(*  SpecCache    ShortTermMemory (app/memory/short_term.py) with its       *)
(*               cleanup thread; LiveCache adds the thread's fairness      *)
(*  SpecThreads  ShortTermMemory called from several threads, each method  *)
(*               split at its lock                                         *)
(*  SpecStore    the writes of the SQLite store: inserts, deletes, clears  *)
(*  SpecRecall   the store's queries by time frame and by pair of agents   *)
(*  SpecBurst    many messages of one pair of agents within one second     *)
(*  SpecPlanner  TaskPlanner (app/planning/task_planner.py) called         *)
(*               directly: tasks, subtasks, assignment, execution, history *)
(*  SpecDiscuss  initiate_discussion, get_task and get_discussion called   *)
(*               directly next to the orchestrator's calls                 *)
(*  SpecAssess   evaluate_quality called directly between executions       *)
(*  SpecConcurrent  execute_task awaited by several asyncio tasks at once  *)
(***************************************************************************)
EXTENDS Integers, Sequences, FiniteSets, TLC

VARIABLES
    agents,              \* AgentHub.agents: set of registered agent ids
    handle,              \* AgentHub.agents: registered id -> the agent object
                         \* and the id's place in the dict's iteration order
    managed_agents,      \* AgentHub.managed_agents: type -> agent id or None
    team_seq,            \* number of teams created (source of fresh agent ids)
    tasks,               \* AgentHub.tasks: task id -> task record
    quality_assessments, \* AgentHub.quality_assessments: task id -> record
    discussions,         \* AgentHub.discussions: discussion id -> record
    log,                 \* rows of the conversations table, in insertion order
    conv_seq,            \* AUTOINCREMENT counter of the conversations table
    planner_ready,       \* whether the hub has a task_planner attribute
    planner_tasks,       \* TaskPlanner.tasks: planner task id -> record
    planner_seq,         \* number of planner task ids drawn so far
    planning,            \* rows of the planning table, in insertion order
    fr,                  \* flow -> frame of the coroutine the flow runs
    flows,               \* the set of concurrent callers of this behaviour
    faults,              \* number of faults raised by workers and log writes
    ops,                 \* number of operations the callers have started
    memory,              \* ShortTermMemory.memory: key -> entry
    now,                 \* the clock that time.time() reads
    cret,                \* the last ShortTermMemory call and what it returned
    sweep,               \* the cleanup thread: its position and its clock reading
    lock,                \* ShortTermMemory.lock: the threads that hold it
    threads,             \* thread -> frame of the ShortTermMemory call it runs
    db,                  \* the SQLite file: memories and conversations tables
    call                 \* the last call on the store or the planner, and
                         \* what it returned

vars == <<agents, managed_agents, team_seq, tasks, quality_assessments,
          discussions, log, conv_seq, planner_ready, planner_tasks,
          planner_seq, planning, fr, flows, faults, ops, handle, memory,
          now, cret, sweep, lock, threads, db, call>>

storeVars == <<lock, threads, db, call>>

cacheVars == <<memory, now, cret, sweep>>

hubVars == <<agents, managed_agents, team_seq, tasks, quality_assessments,
             discussions, log, conv_seq, planner_ready, planner_tasks,
             planner_seq, planning>>

---------------------------------------------------------------------------
(* Bounds of the model *)

MaxOps == 4
MaxFaults == 1
MaxIterationsArg == 2
MaxWords == 2
MaxAgents == 3
MaxObjects == 2
MaxTime == 3
MaxTtl == 2
MaxThreads == 2
MaxCalls == 2
MaxBurst == 22
MaxStoreCalls == 3
MaxPlannerCalls == 5
MaxFlows == 2
MaxIndex == 2

---------------------------------------------------------------------------
(* Enumerations: app/utils/constant.py *)

IDLE == "IDLE"
RUNNING == "RUNNING"
FINISHED == "FINISHED"

RESEARCH == "research"
PLANNING == "planning"
EXECUTION == "execution"
CRITIC == "critic"

AGENT_TYPE_VALUES == {RESEARCH, PLANNING, EXECUTION, CRITIC}

DispatchTypes == {RESEARCH, PLANNING, EXECUTION}

\* Python's None for an agent reference, and the synthetic sender "system".
None == << >>
SYSTEM == <<"system", 0>>

AgentId(type, n) == <<type, n>>

---------------------------------------------------------------------------
(* Texts *)

NoText == [kind |-> "none"]

Reply(words) == [kind |-> "reply", words |-> words]

\* Variant: every placeholder names the research agent.
NotAvailable_AlwaysResearch(type) ==
    [kind |-> "not_available", type |-> "research"]

\* "Research agent not available", ... (agent_hub.py 787, 812, 837, 862)
NotAvailable(type) == [kind |-> "not_available", type |-> type]

\* Variant: the not-found text does not name the recipient.
NotFound_Anonymous(agent_id) == [kind |-> "not_found", agent |-> None]

\* f"Agent {recipient_id} not found" (agent_hub.py 312)
NotFound(agent_id) == [kind |-> "not_found", agent |-> agent_id]

\* f"Research task: {d}", f"Plan task: {d}", f"Execute task: {d}"
DispatchPrompt(type, description) ==
    [kind |-> "dispatch", type |-> type, description |-> description]

\* the critique request of execute_critique (agent_hub.py 866-873)
CritiqueRequest(task_id, results) ==
    [kind |-> "critique_request", task |-> task_id,
     research |-> results[1], planning |-> results[2],
     execution |-> results[3]]

\* the prompts of initiate_discussion (agent_hub.py 973-977, 1013, 1037-1042)
\* Variant: the seed prompt never carries the critique.
DiscussionPrompt_NoCritique(task_id, critique) ==
    [kind |-> "discussion", task |-> task_id,
     critique |-> [kind |-> "no_critique"]]

DiscussionPrompt(task_id, critique) ==
    [kind |-> "discussion", task |-> task_id, critique |-> critique]

NoCritique == [kind |-> "no_critique"]

PlanningPrompt(initial_response) ==
    [kind |-> "discuss_planning", research |-> initial_response]

ExecutionPrompt(initial_response, planning_response) ==
    [kind |-> "discuss_execution", research |-> initial_response,
     planning |-> planning_response]

\* Whether a text is the empty string: every literal above has fixed
\* non-empty parts; a reply is the concatenation of its words.
IsEmptyText(text) ==
    \/ text.kind = "none"
    \/ text.kind = "reply" /\ text.words = << >>

\* What the workers answer: non-empty texts, as every process_message of
\* app/agents returns.  The critic's answers score 1 and 0 (the neutral
\* 1/2 comes with the placeholder texts); the other workers' answers
\* differ so that the three result slots are told apart.
CriticReplies ==
    {Reply(<<"excellent">>), Reply(<<"poor">>)}

WorkerReplies(type) ==
    IF type = CRITIC THEN CriticReplies
    ELSE {Reply(<<"result", type>>)}

Descriptions == {"summarize"}

---------------------------------------------------------------------------
(* evaluate_quality: agent_hub.py 883-916 *)

positive_keywords ==
    {"excellent", "good", "complete", "accurate", "thorough", "comprehensive"}
negative_keywords ==
    {"incomplete", "inaccurate", "poor", "missing", "inadequate", "insufficient"}

\* Python's `keyword in word` for the words of the model's vocabulary: a
\* word contains itself, and "incomplete"/"inaccurate" contain
\* "complete"/"accurate".
IsSubstring(keyword, word) ==
    \/ keyword = word
    \/ keyword = "complete" /\ word = "incomplete"
    \/ keyword = "accurate" /\ word = "inaccurate"

\* `keyword in critique_result.lower()`
KeywordIn(keyword, text) ==
    /\ text.kind = "reply"
    /\ \E i \in 1..Len(text.words) : IsSubstring(keyword, text.words[i])

Score(p, t) == [num |-> p, den |-> t]
NoScore == Score(0, 0)            \* quality_score = None
Neutral == Score(1, 2)            \* 0.5

ScoreLess(a, b) == a.num * b.den < b.num * a.den

QualityScore(critique_result) ==
    LET positive_count ==
            Cardinality({k \in positive_keywords : KeywordIn(k, critique_result)})
        negative_count ==
            Cardinality({k \in negative_keywords : KeywordIn(k, critique_result)})
        total == positive_count + negative_count
    IN  IF total = 0 THEN Neutral ELSE Score(positive_count, total)

Assessment(critique_result) ==
    [score |-> QualityScore(critique_result), critique |-> critique_result]

---------------------------------------------------------------------------
(* Maps with a growing key set (Python dicts) *)

Put(map, key, value) ==
    [k \in DOMAIN map \cup {key} |-> IF k = key THEN value ELSE map[k]]

EmptyMap == << >>

---------------------------------------------------------------------------
(* Identifiers *)

NoTask == <<"task", 0>>
TaskId(n) == <<"task", n>>
PlannerTaskId(n) == <<"plan", n>>
DiscussionId(n) == <<"discussion", n>>
NoDiscussion == DiscussionId(0)

AgentType(agent_id) == agent_id[1]

---------------------------------------------------------------------------
(* Conversation log: DatabaseManager.record_conversation and the router *)

Row(id, triple) ==
    [id |-> id, sender_id |-> triple[1], recipient_id |-> triple[2],
     message |-> triple[3]]

\* Variant: the rows of one call are written last first.
RecordConversations_Reversed(rows, seq, sent) ==
    rows \o [i \in 1..Len(sent) |-> Row(seq + i, sent[Len(sent) + 1 - i])]

\* The rows that a sequence of successful record_conversation calls adds:
\* each INSERT draws the next AUTOINCREMENT id.
RecordConversations(rows, seq, sent) ==
    rows \o [i \in 1..Len(sent) |-> Row(seq + i, sent[i])]

CanFault == faults < MaxFaults

\* What one send_message call can do.  `sent` lists the rows it records
\* before it ends.  It ends by returning `response`, or by raising: the
\* first log write raises (nothing recorded), or the recipient's
\* receive_message raises or the write of the response raises (the
\* outgoing message alone recorded).  `fault` tells a raising worker from
\* a raising log write.
send_message(sender_id, recipient_id, message) ==
    (IF CanFault
        THEN {[sent |-> << >>, raised |-> TRUE, response |-> NoText,
               fault |-> "storage"]}
        ELSE {})
    \cup
    (IF recipient_id \in agents
        THEN {[sent |-> << <<sender_id, recipient_id, message>>,
                           <<recipient_id, sender_id, r>> >>,
               raised |-> FALSE, response |-> r, fault |-> "none"] :
                    r \in WorkerReplies(AgentType(recipient_id))}
             \cup
             (IF CanFault
                 THEN {[sent |-> << <<sender_id, recipient_id, message>> >>,
                        raised |-> TRUE, response |-> NoText, fault |-> k] :
                            k \in {"worker", "storage"}}
                 ELSE {})
        ELSE {[sent |-> << <<sender_id, recipient_id, message>> >>,
               raised |-> FALSE, response |-> NotFound(recipient_id),
               fault |-> "none"]})

\* The effect of one send_message outcome on the log and the fault count.
Sent(o) ==
    /\ log' = RecordConversations(log, conv_seq, o.sent)
    /\ conv_seq' = conv_seq + Len(o.sent)
    /\ faults' = IF o.raised THEN faults + 1 ELSE faults

---------------------------------------------------------------------------
(* Task planner: app/planning/task_planner.py *)

PlanningRow(id, task_id, agent_id, plan_type, content) ==
    [id |-> id, task_id |-> task_id, agent_id |-> agent_id,
     plan_type |-> plan_type, content |-> content]

SubtaskId(task_id, i) == <<task_id, "subtask", i>>

\* TaskPlanner.create_task: a planner task under an id of the planner's own.
PlannerCreateTask(task_description, creator_id) ==
    LET task_id == PlannerTaskId(planner_seq + 1)
    IN  /\ planner_seq' = planner_seq + 1
        /\ planning' = Append(planning,
               PlanningRow(Len(planning) + 1, task_id, creator_id,
                           "task_creation", task_description))
        /\ planner_tasks' = Put(planner_tasks, task_id,
               [description |-> task_description, creator_id |-> creator_id,
                status |-> "created", subtasks |-> << >>])

\* TaskPlanner.decompose_task: nothing for a task id the planner does not
\* hold; otherwise one subtask per description, numbered from 0.
DecomposedSubtasks(task_id, subtasks) ==
    [i \in 1..Len(subtasks) |->
        [id |-> SubtaskId(task_id, i - 1), description |-> subtasks[i],
         status |-> "created", agent_id |-> None]]

DecomposeTask(task_id, subtasks) ==
    IF task_id \notin DOMAIN planner_tasks
        THEN UNCHANGED <<planner_tasks, planning>>
        ELSE /\ planner_tasks' =
                    [planner_tasks EXCEPT ![task_id].subtasks =
                        @ \o DecomposedSubtasks(task_id, subtasks)]
             /\ planning' = planning \o
                    [i \in 1..Len(subtasks) |->
                        PlanningRow(Len(planning) + i,
                                    SubtaskId(task_id, i - 1), SYSTEM,
                                    "subtask", subtasks[i])]

---------------------------------------------------------------------------
(* ShortTermMemory entries: app/memory/short_term.py *)

\* ttl=None and ttl=n seconds.
NoTtl == [set |-> FALSE, secs |-> 0]
Ttl(n) == [set |-> TRUE, secs |-> n]

\* The entry that add stores (44-48).
Entry(value, timestamp, ttl) ==
    [value |-> value, timestamp |-> timestamp, ttl |-> ttl]

\* Variant: an entry is still served when exactly ttl seconds have passed.
Live_Inclusive(data, time) ==
    \/ ~data.ttl.set
    \/ time - data.timestamp <= data.ttl.secs

\* The test of get (65) and of get_all (154).
Live(data, time) ==
    \/ ~data.ttl.set
    \/ time - data.timestamp < data.ttl.secs

\* The test of clear_expired (128).
SweepExpired(data, current_time) ==
    /\ data.ttl.set
    /\ current_time - data.timestamp > data.ttl.secs

\* A caller's call of add, get, update or delete and what it returned:
\* `ok` is the bool (for get: whether a value came back), `value` the
\* value get returned.
NoValue == "None"
CacheCall(op, key, ok, value) ==
    [op |-> op, key |-> key, ok |-> ok, value |-> value]
NoCacheCall == CacheCall("none", "", FALSE, NoValue)

\* The cleanup thread sleeps, or is in clear_expired with the clock read.
SweepIdle == [pc |-> "sleep", current_time |-> 0]

\* The threads that use one ShortTermMemory: the cleanup thread that
\* __init__ starts (28-29) and the callers.
CleanupThread == 0
ThreadIds == 0..MaxThreads

\* A thread that is in no ShortTermMemory call.  In a call, pc is the
\* thread's position and the other fields are the call's arguments and
\* locals; `exc` is the exception the call raised.
ThreadIdle ==
    [op |-> "none", pc |-> "idle", key |-> "", value |-> NoValue,
     ttl |-> NoTtl, reset_ttl |-> FALSE, current_time |-> 0,
     keys_to_remove |-> {}, count |-> 0, result |-> << >>,
     ok |-> FALSE, ret |-> NoValue, exc |-> "none"]

(* The store *)

\* init_db (31-76): empty tables; `seq` is sqlite_sequence, the largest
\* id AUTOINCREMENT has handed out per table.
Tables == {"memories", "conversations", "planning"}
EmptyDb ==
    [memories |-> << >>, conversations |-> << >>, planning |-> << >>,
     seq |-> [t \in Tables |-> 0]]

\* A call on the store or the planner: its name, its arguments, whether
\* it returned or raised, and the value it returned.
NoCall == [op |-> "none"]

---------------------------------------------------------------------------
(* Frames *)

NoResults == [t \in DispatchTypes |-> NoText]

IdleFrame ==
    [op |-> "none",            \* the operation the flow called last
     pc |-> "idle",            \* position in it; "idle" once it has ended
     outcome |-> "none",       \* how it ended: "returned" or "raised"
     ret |-> EmptyMap,         \* the map it returned
     ret_id |-> NoTask,        \* the id create_task returned
     score |-> NoScore,        \* the float evaluate_quality returned
     ok |-> FALSE,             \* the bool register_agent returned
     none |-> FALSE,           \* get_task / get_discussion returned None
     response |-> NoText,      \* the text send_message returned
     agent |-> None,           \* the argument of register_agent
     sender_id |-> None,       \* arguments of send_message, broadcast_message
     recipient_id |-> None,
     exclude_ids |-> << >>,    \* the caller's exclude list, as the call left it
     exclude0 |-> << >>,       \* ... and as the caller passed it
     agents0 |-> {},           \* the registered ids when the call began
     received |-> {},          \* the agents whose receive_message the call invoked
     fault |-> "none",         \* what raised in the call: a worker or a log write
     task |-> NoTask,          \* task_id
     in_improve |-> FALSE,     \* execute_task is awaited by improve_task_results
     res |-> NoResults,        \* results of the three dispatch coroutines
     exc |-> FALSE,            \* a dispatch coroutine raised
     min_quality_score |-> NoScore,
     max_iterations |-> 0,
     quality_score |-> NoScore,   \* locals of improve_task_results
     iterations |-> 0,
     discussion |-> NoDiscussion, \* discussion_id of the running discussion
     initial_response |-> NoText, \* locals of initiate_discussion
     planning_response |-> NoText,
     cycles |-> 0,             \* discussions this call has initiated
     execs |-> 0,              \* execute_task invocations this call has begun
     iter0 |-> 0,              \* the task's iterations when the call began
     state0 |-> "none",        \* the task's state when the call began
     log0 |-> 0,               \* the length of the log when the call began
     round0 |-> 0]             \* ... and when the running execute_task began

Idle(f) == fr[f].pc = "idle"

\* The call ends by returning `ret` / by raising.
Returns(frame, ret) ==
    [frame EXCEPT !.pc = "idle", !.outcome = "returned", !.ret = ret]

Raises(frame) ==
    [frame EXCEPT !.pc = "idle", !.outcome = "raised"]

---------------------------------------------------------------------------
(* AgentHub.__init__: agent_hub.py 26-37 *)

Init ==
    /\ agents = {}
    /\ managed_agents = [t \in AGENT_TYPE_VALUES |-> None]
    /\ team_seq = 0
    /\ tasks = EmptyMap
    /\ quality_assessments = EmptyMap
    /\ discussions = EmptyMap
    /\ log = << >>
    /\ conv_seq = 0
    /\ planner_ready = FALSE
    /\ planner_tasks = EmptyMap
    /\ planner_seq = 0
    /\ planning = << >>
    /\ flows = {1}
    /\ fr = [f \in flows |-> IdleFrame]
    /\ faults = 0
    /\ ops = 0
    /\ handle = EmptyMap
    /\ memory = EmptyMap
    /\ now = 0
    /\ cret = NoCacheCall
    /\ sweep = SweepIdle
    /\ lock = {}
    /\ threads = [t \in ThreadIds |-> ThreadIdle]
    /\ db = EmptyDb
    /\ call = NoCall

---------------------------------------------------------------------------
(* Registry *)

\* An entry of the agents dict: the object registered under the id, and
\* the rank of the id in the dict's (insertion) order.
Registered(obj, pos) == [obj |-> obj, pos |-> pos]

\* The ids of a set of registered agents in the dict's iteration order.
RECURSIVE InOrder(_)
InOrder(ids) ==
    IF ids = {} THEN << >>
    ELSE LET first == CHOOSE a \in ids :
                          \A b \in ids : handle[a].pos <= handle[b].pos
         IN  <<first>> \o InOrder(ids \ {first})

\* The order in which initialize_team creates (and so registers) its agents.
TeamOrder == <<RESEARCH, PLANNING, EXECUTION, CRITIC>>
TeamRank(type) == CHOOSE i \in 1..Len(TeamOrder) : TeamOrder[i] = type

\* get_agent_by_type: agent_hub.py 624-634
get_agent_by_type(agent_type) == managed_agents[agent_type]

\* initialize_team: agent_hub.py 636-692.  Four new agents are created and
\* registered (create_agent, 85), managed_agents is replaced, and the hub
\* gets a new, empty task planner.
InitializeTeam(f) ==
    /\ Idle(f)
    /\ ops < MaxOps
    /\ ops' = ops + 1
    /\ team_seq' = team_seq + 1
    /\ agents' = agents \cup {AgentId(t, team_seq + 1) : t \in AGENT_TYPE_VALUES}
    /\ handle' = [a \in agents' |->
                     IF a \in agents THEN handle[a]
                     ELSE Registered(1, Cardinality(agents) + TeamRank(AgentType(a)))]
    /\ managed_agents' = [t \in AGENT_TYPE_VALUES |-> AgentId(t, team_seq + 1)]
    /\ planner_ready' = TRUE
    /\ planner_tasks' = EmptyMap
    /\ UNCHANGED <<tasks, quality_assessments, discussions, log, conv_seq,
                   planner_seq, planning, fr, flows, faults>>
    /\ UNCHANGED <<cacheVars, storeVars>>

\* unregister_agent: agent_hub.py 220-233
UnregisterAgent(f, agent_id) ==
    /\ Idle(f)
    /\ ops < MaxOps
    /\ agent_id \in agents
    /\ agents' = agents \ {agent_id}
    /\ handle' = [a \in agents' |->
                     [handle[a] EXCEPT !.pos =
                         IF @ > handle[agent_id].pos THEN @ - 1 ELSE @]]
    /\ ops' = ops + 1
    /\ UNCHANGED <<managed_agents, team_seq, tasks, quality_assessments,
                   discussions, log, conv_seq, planner_ready, planner_tasks,
                   planner_seq, planning, fr, flows, faults>>
    /\ UNCHANGED <<cacheVars, storeVars>>

---------------------------------------------------------------------------
(* create_task: agent_hub.py 694-721 *)

NewTask(task_description) ==
    [description |-> task_description, state |-> IDLE, results |-> EmptyMap,
     quality_score |-> NoScore, iterations |-> 0]

\* Variant: the id does not depend on the ids drawn before.
NextTaskId_Fixed == TaskId(1)

NextTaskId == TaskId(Cardinality(DOMAIN tasks) + 1)

\* The task is stored first (709); without a task planner on the hub the
\* mirror into the planner (719) raises AttributeError and no id is returned.
CreateTask(f, task_description) ==
    /\ Idle(f)
    /\ ops < MaxOps
    /\ ops' = ops + 1
    /\ tasks' = Put(tasks, NextTaskId, NewTask(task_description))
    /\ IF planner_ready
          THEN /\ PlannerCreateTask(task_description, None)
               /\ fr' = [fr EXCEPT ![f] =
                     [Returns(IdleFrame, EmptyMap) EXCEPT
                         !.op = "create_task", !.ret_id = NextTaskId,
                         !.task = NextTaskId]]
          ELSE /\ UNCHANGED <<planner_tasks, planner_seq, planning>>
               /\ fr' = [fr EXCEPT ![f] =
                     [Raises(IdleFrame) EXCEPT
                         !.op = "create_task", !.task = NextTaskId]]
    /\ UNCHANGED <<agents, managed_agents, team_seq, quality_assessments,
                   discussions, log, conv_seq, planner_ready, flows, faults>>
    /\ UNCHANGED <<handle, memory, now, cret, sweep, storeVars>>

\* get_task: agent_hub.py 1082-1092 (None for an unknown id)
NoTaskRecord == [description |-> "", state |-> "none", results |-> EmptyMap,
                 quality_score |-> NoScore, iterations |-> 0]

get_task(task_id) ==
    IF task_id \in DOMAIN tasks THEN tasks[task_id] ELSE NoTaskRecord

---------------------------------------------------------------------------
(* execute_task: agent_hub.py 723-771 *)

TaskNotFound(task_id) ==
    Put(EmptyMap, "error", [kind |-> "task_not_found", task |-> task_id])

\* Variant: the iteration count is set to 1 instead of being incremented.
ExecuteTaskEnter_SetOne(f, frame, task_id) ==
    /\ tasks' = [tasks EXCEPT ![task_id].state = "RUNNING",
                              ![task_id].iterations = 1]
    /\ fr' = [fr EXCEPT ![f] =
          [frame EXCEPT !.pc = "research", !.res = NoResults, !.exc = FALSE,
                        !.execs = @ + 1, !.round0 = Len(log)]]

\* Lines 737-750: the task goes RUNNING, its iteration count goes up, and
\* the three dispatch coroutines are handed to asyncio.gather.
ExecuteTaskEnter(f, frame, task_id) ==
    /\ tasks' = [tasks EXCEPT ![task_id].state = RUNNING,
                              ![task_id].iterations = @ + 1]
    /\ fr' = [fr EXCEPT ![f] =
          [frame EXCEPT !.pc = RESEARCH, !.res = NoResults, !.exc = FALSE,
                        !.execs = @ + 1, !.round0 = Len(log)]]

\* A caller starts execute_task(task_id).
CallExecuteTask(f, task_id) ==
    /\ Idle(f)
    /\ ops < MaxOps
    /\ ops' = ops + 1
    /\ LET frame == [IdleFrame EXCEPT !.op = "execute_task", !.task = task_id,
                        !.iter0 = get_task(task_id).iterations,
                        !.state0 = get_task(task_id).state,
                        !.log0 = Len(log)]
       IN  IF task_id \notin DOMAIN tasks
              THEN /\ fr' = [fr EXCEPT ![f] = Returns(frame, TaskNotFound(task_id))]
                   /\ UNCHANGED tasks
              ELSE ExecuteTaskEnter(f, frame, task_id)
    /\ UNCHANGED <<agents, managed_agents, team_seq, quality_assessments,
                   discussions, log, conv_seq, planner_ready, planner_tasks,
                   planner_seq, planning, flows, faults>>
    /\ UNCHANGED <<handle, memory, now, cret, sweep, storeVars>>

\* Variant: the barrier is taken without waiting for the execution dispatch.
NextDispatch_SkipExecution(type) ==
    CASE type = RESEARCH -> PLANNING
      [] type = PLANNING -> "barrier"
      [] type = EXECUTION -> "barrier"

NextDispatch(type) ==
    CASE type = RESEARCH -> PLANNING
      [] type = PLANNING -> EXECUTION
      [] type = EXECUTION -> "barrier"

\* The subtask description each dispatch hands to decompose_task
\* (794, 819, 844, 879).
DispatchSubtask(type, task_description) == <<type, task_description>>

\* execute_research / execute_planning / execute_execution:
\* agent_hub.py 773-846.  The coroutines contain no await, so each runs to
\* its end in one step, in the order gather scheduled them; a coroutine
\* that raises does not stop the ones scheduled after it.
Dispatch(f, type) ==
    /\ fr[f].pc = type
    /\ LET agent == get_agent_by_type(type)
           task_id == fr[f].task
           description == tasks[task_id].description
       IN  IF agent = None
              THEN /\ fr' = [fr EXCEPT ![f].res[type] = NotAvailable(type),
                                       ![f].pc = NextDispatch(type)]
                   /\ UNCHANGED <<log, conv_seq, faults, planner_tasks, planning>>
              ELSE \E o \in send_message(SYSTEM, agent, DispatchPrompt(type, description)) :
                   /\ Sent(o)
                   /\ IF o.raised \/ ~planner_ready
                         THEN /\ fr' = [fr EXCEPT ![f].exc = TRUE,
                                                  ![f].pc = NextDispatch(type)]
                              /\ UNCHANGED <<planner_tasks, planning>>
                         ELSE /\ DecomposeTask(task_id,
                                     <<DispatchSubtask(type, description)>>)
                              /\ fr' = [fr EXCEPT ![f].res[type] = o.response,
                                                  ![f].pc = NextDispatch(type)]
    /\ UNCHANGED <<agents, managed_agents, team_seq, tasks, quality_assessments,
                   discussions, planner_ready, planner_seq, flows, ops>>
    /\ UNCHANGED <<handle, memory, now, cret, sweep, storeVars>>

\* The three results in the order gather returns them (750-758).
GatheredResults(frame) ==
    <<frame.res[RESEARCH], frame.res[PLANNING], frame.res[EXECUTION]>>

\* Variant: the execution slot is not stored.
StoredResults_NoExecution(frame) ==
    [t \in {RESEARCH, PLANNING} |-> frame.res[t]]

StoredResults(frame) ==
    [t \in DispatchTypes |-> frame.res[t]]

\* Lines 762-771 once the critique text is known: the critic slot, the
\* quality assessment (evaluate_quality, 909-916), the score, FINISHED, and
\* the return of the results map.  Inside improve_task_results the caller
\* then reads the score and the iteration count (938-939, 950-951).
ExecuteTaskFinish(f, critique_result) ==
    LET frame == fr[f]
        task_id == frame.task
        results == Put(StoredResults(frame), CRITIC, critique_result)
    IN  /\ tasks' = [tasks EXCEPT ![task_id].results = results,
                        ![task_id].quality_score = QualityScore(critique_result),
                        ![task_id].state = FINISHED]
        /\ quality_assessments' =
               Put(quality_assessments, task_id, Assessment(critique_result))
        /\ fr' = [fr EXCEPT ![f] =
              IF frame.in_improve
                 THEN [frame EXCEPT !.pc = "loop",
                          !.quality_score = QualityScore(critique_result),
                          !.iterations = tasks[task_id].iterations]
                 ELSE Returns(frame, results)]

\* The barrier and what follows it: agent_hub.py 750-771 with
\* execute_critique (848-881).  gather re-raises what a dispatch raised.
\* Nothing suspends between the barrier and the return.
ExecuteAfterBarrier(f) ==
    /\ fr[f].pc = "barrier"
    /\ LET frame == fr[f]
           task_id == frame.task
           critic_agent == get_agent_by_type(CRITIC)
       IN  IF frame.exc
              THEN /\ fr' = [fr EXCEPT ![f] = Raises(frame)]
                   /\ UNCHANGED <<tasks, quality_assessments, log, conv_seq,
                                  faults, planner_tasks, planning>>
              ELSE IF critic_agent = None
                 THEN /\ ExecuteTaskFinish(f, NotAvailable(CRITIC))
                      /\ UNCHANGED <<log, conv_seq, faults, planner_tasks, planning>>
                 ELSE \E o \in send_message(SYSTEM, critic_agent,
                                  CritiqueRequest(task_id, GatheredResults(frame))) :
                      /\ Sent(o)
                      /\ IF o.raised \/ ~planner_ready
                            THEN /\ tasks' = [tasks EXCEPT ![task_id].results =
                                                  StoredResults(frame)]
                                 /\ fr' = [fr EXCEPT ![f] = Raises(frame)]
                                 /\ UNCHANGED <<quality_assessments,
                                                planner_tasks, planning>>
                            ELSE /\ DecomposeTask(task_id, <<"Critique of results">>)
                                 /\ ExecuteTaskFinish(f, o.response)
    /\ UNCHANGED <<agents, managed_agents, team_seq, discussions,
                   planner_ready, planner_seq, flows, ops>>
    /\ UNCHANGED <<handle, memory, now, cret, sweep, storeVars>>

---------------------------------------------------------------------------
(* improve_task_results: agent_hub.py 918-953 *)

MinQualityScores == {Score(7, 10), Score(1, 2)}

\* Lines 930-939: an unknown id is answered with an error map; a task that
\* is not FINISHED is executed first; otherwise the loop starts from the
\* task's current score and iteration count.
CallImproveTaskResults(f, task_id, min_quality_score, max_iterations) ==
    /\ Idle(f)
    /\ ops < MaxOps
    /\ ops' = ops + 1
    /\ LET frame == [IdleFrame EXCEPT !.op = "improve_task_results",
                        !.task = task_id, !.in_improve = TRUE,
                        !.min_quality_score = min_quality_score,
                        !.max_iterations = max_iterations,
                        !.iter0 = get_task(task_id).iterations,
                        !.state0 = get_task(task_id).state,
                        !.log0 = Len(log)]
       IN  IF task_id \notin DOMAIN tasks
              THEN /\ fr' = [fr EXCEPT ![f] = Returns(frame, TaskNotFound(task_id))]
                   /\ UNCHANGED tasks
              ELSE IF tasks[task_id].state # FINISHED
                 THEN ExecuteTaskEnter(f, frame, task_id)
                 ELSE /\ fr' = [fr EXCEPT ![f] =
                            [frame EXCEPT !.pc = "loop",
                                !.quality_score = tasks[task_id].quality_score,
                                !.iterations = tasks[task_id].iterations]]
                      /\ UNCHANGED tasks
    /\ UNCHANGED <<agents, managed_agents, team_seq, quality_assessments,
                   discussions, log, conv_seq, planner_ready, planner_tasks,
                   planner_seq, planning, flows, faults>>
    /\ UNCHANGED <<handle, memory, now, cret, sweep, storeVars>>

\* Variants of the loop condition: one that forgets the iteration budget,
\* one that stops a round early.
Continue_NoBudget(quality_score, iterations, min_quality_score, max_iterations) ==
    quality_score.num * min_quality_score.den
        < min_quality_score.num * quality_score.den

Continue_OffByOne(quality_score, iterations, min_quality_score, max_iterations) ==
    /\ quality_score.num * min_quality_score.den
           < min_quality_score.num * quality_score.den
    /\ iterations + 1 < max_iterations

\* The loop condition of line 942.
Continue(quality_score, iterations, min_quality_score, max_iterations) ==
    /\ ScoreLess(quality_score, min_quality_score)
    /\ iterations < max_iterations

NextDiscussionId == DiscussionId(Cardinality(DOMAIN discussions) + 1)

\* A time.time() stamp that a record may lack.
NoStamp == [set |-> FALSE, at |-> 0]
Stamp(t) == [set |-> TRUE, at |-> t]

\* The discussion stored at lines 968-986: no message yet, active, and no
\* concluded_at key.
NewDiscussion(task_id, critique) ==
    [task_id |-> task_id, prompt |-> DiscussionPrompt(task_id, critique),
     messages |-> << >>, active |-> TRUE, concluded_at |-> NoStamp]

\* Line 942, then either the return of line 953 or the start of
\* initiate_discussion (965-986).  Comparing an unset score raises TypeError.
ImproveLoop(f) ==
    /\ fr[f].pc = "loop"
    /\ LET frame == fr[f]
           task_id == frame.task
           results == tasks[task_id].results
           critique == IF CRITIC \in DOMAIN results THEN results[CRITIC]
                                                    ELSE NoCritique
       IN  IF frame.quality_score = NoScore
              THEN /\ fr' = [fr EXCEPT ![f] = Raises(frame)]
                   /\ UNCHANGED discussions
              ELSE IF Continue(frame.quality_score, frame.iterations,
                               frame.min_quality_score, frame.max_iterations)
                 THEN /\ discussions' = Put(discussions, NextDiscussionId,
                            NewDiscussion(task_id, critique))
                      /\ fr' = [fr EXCEPT ![f] =
                            [frame EXCEPT !.pc = "discuss_research",
                                !.discussion = NextDiscussionId,
                                !.initial_response = NoText,
                                !.planning_response = NoText,
                                !.cycles = @ + 1]]
                 ELSE /\ fr' = [fr EXCEPT ![f] = Returns(frame, results)]
                      /\ UNCHANGED discussions
    /\ UNCHANGED <<agents, managed_agents, team_seq, tasks, quality_assessments,
                   log, conv_seq, planner_ready, planner_tasks, planner_seq,
                   planning, flows, faults, ops>>
    /\ UNCHANGED <<handle, memory, now, cret, sweep, storeVars>>

---------------------------------------------------------------------------
(* initiate_discussion: agent_hub.py 988-1068 *)

DiscussPc(type) ==
    CASE type = RESEARCH -> "discuss_research"
      [] type = PLANNING -> "discuss_planning"
      [] type = EXECUTION -> "discuss_execution"

\* Variant: every hop is sent the seed prompt of the discussion.
HopPrompt_Seed(frame, type) == discussions[frame.discussion].prompt

\* The prompt of a hop: lines 977-981, 999, 1021-1026.
HopPrompt(frame, type) ==
    CASE type = RESEARCH -> discussions[frame.discussion].prompt
      [] type = PLANNING -> PlanningPrompt(frame.initial_response)
      [] type = EXECUTION -> ExecutionPrompt(frame.initial_response,
                                             frame.planning_response)

DiscussionMessage(sender_id, recipient_id, message) ==
    [sender_id |-> sender_id, recipient_id |-> recipient_id,
     message |-> message]

\* One hop: the agent of the type is looked up and its agent_id read (a
\* missing agent raises AttributeError), the prompt is sent, and the prompt
\* and the response are appended to the discussion.  After the execution
\* hop the discussion is concluded (1064-1065); improve_task_results then
\* goes on into execute_task (947), and a direct call returns the
\* discussion id (1067).
DiscussHop(f, type) ==
    /\ fr[f].pc = DiscussPc(type)
    /\ LET frame == fr[f]
           agent == get_agent_by_type(type)
           id == frame.discussion
           prompt == HopPrompt(frame, type)
       IN  IF agent = None
              THEN /\ fr' = [fr EXCEPT ![f] = Raises(frame)]
                   /\ UNCHANGED <<tasks, discussions, log, conv_seq, faults>>
              ELSE \E o \in send_message(SYSTEM, agent, prompt) :
                   /\ Sent(o)
                   /\ IF o.raised
                         THEN /\ fr' = [fr EXCEPT ![f] = Raises(frame)]
                              /\ UNCHANGED <<tasks, discussions>>
                         ELSE LET said == discussions[id].messages \o
                                     <<DiscussionMessage(SYSTEM, agent, prompt),
                                       DiscussionMessage(agent, SYSTEM, o.response)>>
                              IN  CASE type = RESEARCH ->
                                        /\ discussions' = [discussions EXCEPT
                                               ![id].messages = said]
                                        /\ fr' = [fr EXCEPT
                                               ![f].initial_response = o.response,
                                               ![f].pc = DiscussPc(PLANNING)]
                                        /\ UNCHANGED tasks
                                    [] type = PLANNING ->
                                        /\ discussions' = [discussions EXCEPT
                                               ![id].messages = said]
                                        /\ fr' = [fr EXCEPT
                                               ![f].planning_response = o.response,
                                               ![f].pc = DiscussPc(EXECUTION)]
                                        /\ UNCHANGED tasks
                                    [] type = EXECUTION ->
                                        /\ discussions' = [discussions EXCEPT
                                               ![id].messages = said,
                                               ![id].active = FALSE,
                                               ![id].concluded_at = Stamp(now)]
                                        /\ IF frame.op = "initiate_discussion"
                                              THEN /\ fr' = [fr EXCEPT ![f] =
                                                        Returns(frame, EmptyMap)]
                                                   /\ UNCHANGED tasks
                                              ELSE ExecuteTaskEnter(f, frame,
                                                                    frame.task)
    /\ UNCHANGED <<agents, managed_agents, team_seq, quality_assessments,
                   planner_ready, planner_tasks, planner_seq, planning, flows,
                   ops>>
    /\ UNCHANGED <<handle, memory, now, cret, sweep, storeVars>>

---------------------------------------------------------------------------
(* The callers *)

TaskIdArgs == DOMAIN tasks \cup {NoTask}

Next ==
    \/ \E f \in flows : InitializeTeam(f)
    \/ \E f \in flows, agent_id \in agents : UnregisterAgent(f, agent_id)
    \/ \E f \in flows, d \in Descriptions : CreateTask(f, d)
    \/ \E f \in flows, task_id \in TaskIdArgs : CallExecuteTask(f, task_id)
    \/ \E f \in flows, type \in DispatchTypes : Dispatch(f, type)
    \/ \E f \in flows : ExecuteAfterBarrier(f)
    \/ \E f \in flows, task_id \in TaskIdArgs, q \in MinQualityScores,
          n \in 0..MaxIterationsArg :
            CallImproveTaskResults(f, task_id, q, n)
    \/ \E f \in flows : ImproveLoop(f)
    \/ \E f \in flows, type \in DispatchTypes : DiscussHop(f, type)

Spec == Init /\ [][Next]_vars

---------------------------------------------------------------------------
(* initiate_discussion, get_task and get_discussion called directly *)

\* initiate_discussion(task_id): agent_hub.py 955-986.  The id is drawn
\* (965), then the task is read (968): an id the hub does not hold raises
\* KeyError before anything is stored.  Otherwise the discussion is stored
\* and the first hop begins.
CallInitiateDiscussion(f, task_id) ==
    /\ Idle(f)
    /\ ops < MaxOps
    /\ ops' = ops + 1
    /\ LET frame == [IdleFrame EXCEPT !.op = "initiate_discussion",
                        !.task = task_id,
                        !.iter0 = get_task(task_id).iterations,
                        !.state0 = get_task(task_id).state,
                        !.log0 = Len(log)]
           results == tasks[task_id].results
           critique == IF CRITIC \in DOMAIN results THEN results[CRITIC]
                                                    ELSE NoCritique
       IN  IF task_id \notin DOMAIN tasks
              THEN /\ fr' = [fr EXCEPT ![f] = Raises(frame)]
                   /\ UNCHANGED discussions
              ELSE /\ discussions' = Put(discussions, NextDiscussionId,
                          NewDiscussion(task_id, critique))
                   /\ fr' = [fr EXCEPT ![f] =
                          [frame EXCEPT !.pc = "discuss_research",
                              !.discussion = NextDiscussionId,
                              !.cycles = 1]]
    /\ UNCHANGED <<agents, managed_agents, team_seq, tasks, quality_assessments,
                   log, conv_seq, planner_ready, planner_tasks, planner_seq,
                   planning, flows, faults>>
    /\ UNCHANGED <<handle, memory, now, cret, sweep, storeVars>>

\* get_task(task_id): agent_hub.py 1082-1092, dict.get: the task, or None.
GetTask(f, task_id) ==
    /\ Idle(f)
    /\ ops < MaxOps
    /\ ops' = ops + 1
    /\ fr' = [fr EXCEPT ![f] =
          [Returns(IdleFrame, EmptyMap) EXCEPT
              !.op = "get_task", !.task = task_id,
              !.none = task_id \notin DOMAIN tasks]]
    /\ UNCHANGED <<agents, managed_agents, team_seq, tasks, quality_assessments,
                   discussions, log, conv_seq, planner_ready, planner_tasks,
                   planner_seq, planning, flows, faults>>
    /\ UNCHANGED <<handle, memory, now, cret, sweep, storeVars>>

\* get_discussion(discussion_id): agent_hub.py 1070-1080, dict.get.
GetDiscussion(f, discussion_id) ==
    /\ Idle(f)
    /\ ops < MaxOps
    /\ ops' = ops + 1
    /\ fr' = [fr EXCEPT ![f] =
          [Returns(IdleFrame, EmptyMap) EXCEPT
              !.op = "get_discussion", !.discussion = discussion_id,
              !.none = discussion_id \notin DOMAIN discussions]]
    /\ UNCHANGED <<agents, managed_agents, team_seq, tasks, quality_assessments,
                   discussions, log, conv_seq, planner_ready, planner_tasks,
                   planner_seq, planning, flows, faults>>
    /\ UNCHANGED <<handle, memory, now, cret, sweep, storeVars>>

DiscussionIdArgs == DOMAIN discussions \cup {NoDiscussion}

\* The orchestrator with its lookups and with discussions started by hand.
NextDiscuss ==
    \/ \E f \in flows : InitializeTeam(f)
    \/ \E f \in flows, d \in Descriptions : CreateTask(f, d)
    \/ \E f \in flows, task_id \in TaskIdArgs : CallExecuteTask(f, task_id)
    \/ \E f \in flows, type \in DispatchTypes : Dispatch(f, type)
    \/ \E f \in flows : ExecuteAfterBarrier(f)
    \/ \E f \in flows, task_id \in TaskIdArgs, q \in MinQualityScores,
          n \in 0..MaxIterationsArg :
            CallImproveTaskResults(f, task_id, q, n)
    \/ \E f \in flows : ImproveLoop(f)
    \/ \E f \in flows, task_id \in TaskIdArgs :
            CallInitiateDiscussion(f, task_id)
    \/ \E f \in flows, type \in DispatchTypes : DiscussHop(f, type)
    \/ \E f \in flows, task_id \in TaskIdArgs : GetTask(f, task_id)
    \/ \E f \in flows, discussion_id \in DiscussionIdArgs :
            GetDiscussion(f, discussion_id)

SpecDiscuss == Init /\ [][NextDiscuss]_vars

---------------------------------------------------------------------------
(* evaluate_quality called on critique texts of every shape *)

OtherWords == {"the", "results"}

Vocabulary == positive_keywords \cup negative_keywords \cup OtherWords

WordSeqs(n) == UNION {[1..m -> Vocabulary] : m \in 0..n}

Critiques == {Reply(words) : words \in WordSeqs(MaxWords)}

\* evaluate_quality(task_id, critique_result): agent_hub.py 883-916.  The
\* assessment is stored under task_id, whether or not the hub holds such a
\* task, and the score is returned.
EvaluateQuality(f, task_id, critique_result) ==
    /\ Idle(f)
    /\ quality_assessments' =
           Put(quality_assessments, task_id, Assessment(critique_result))
    /\ fr' = [fr EXCEPT ![f] =
          [Returns(IdleFrame, EmptyMap) EXCEPT
              !.op = "evaluate_quality", !.task = task_id,
              !.score = QualityScore(critique_result)]]
    /\ UNCHANGED <<agents, managed_agents, team_seq, tasks, discussions, log,
                   conv_seq, planner_ready, planner_tasks, planner_seq,
                   planning, flows, faults, ops>>
    /\ UNCHANGED <<handle, memory, now, cret, sweep, storeVars>>

NextQuality ==
    \E f \in flows, critique_result \in Critiques :
        EvaluateQuality(f, TaskId(1), critique_result)

SpecQuality == Init /\ [][NextQuality]_vars

---------------------------------------------------------------------------
(* evaluate_quality called directly between executions of a task *)

\* The critique texts a caller hands to evaluate_quality.
DirectCritiques == CriticReplies

\* execute_task, improve_task_results and evaluate_quality (a public
\* method of the hub) in any order.
NextAssess ==
    \/ \E f \in flows : InitializeTeam(f)
    \/ \E f \in flows, d \in Descriptions : CreateTask(f, d)
    \/ \E f \in flows, task_id \in TaskIdArgs : CallExecuteTask(f, task_id)
    \/ \E f \in flows, type \in DispatchTypes : Dispatch(f, type)
    \/ \E f \in flows : ExecuteAfterBarrier(f)
    \/ \E f \in flows, task_id \in TaskIdArgs, q \in MinQualityScores,
          n \in 0..MaxIterationsArg :
            CallImproveTaskResults(f, task_id, q, n)
    \/ \E f \in flows : ImproveLoop(f)
    \/ \E f \in flows, type \in DispatchTypes : DiscussHop(f, type)
    \/ \E f \in flows, task_id \in TaskIdArgs,
          critique_result \in DirectCritiques :
            EvaluateQuality(f, task_id, critique_result)

SpecAssess == Init /\ [][NextAssess]_vars

---------------------------------------------------------------------------
(* execute_task awaited by several asyncio tasks at once *)

\* The caller starts one more asyncio task (asyncio.create_task / gather)
\* that will call into the hub.
Spawn ==
    /\ Cardinality(flows) < MaxFlows
    /\ flows' = flows \cup {Cardinality(flows) + 1}
    /\ fr' = [f \in flows' |-> IF f \in flows THEN fr[f] ELSE IdleFrame]
    /\ UNCHANGED <<hubVars, faults, ops>>
    /\ UNCHANGED <<handle, memory, now, cret, sweep, storeVars>>

\* Each invocation of execute_task runs from its start to the gather of
\* line 750 without suspending, its three dispatch coroutines run one at a
\* time, and from the barrier to the return nothing suspends; the steps of
\* different invocations interleave.
NextConcurrent ==
    \/ Spawn
    \/ \E f \in flows : InitializeTeam(f)
    \/ \E f \in flows, d \in Descriptions : CreateTask(f, d)
    \/ \E f \in flows, task_id \in TaskIdArgs : CallExecuteTask(f, task_id)
    \/ \E f \in flows, type \in DispatchTypes : Dispatch(f, type)
    \/ \E f \in flows : ExecuteAfterBarrier(f)

SpecConcurrent == Init /\ [][NextConcurrent]_vars

---------------------------------------------------------------------------
(* The registry and the message router called directly *)

BASE == "base"

RouterIds == {AgentId(BASE, n) : n \in 1..MaxAgents}

\* Agent objects a caller may hand to register_agent: the object's
\* agent_id (None when it is empty) and which object it is.
AgentObject(agent_id, obj) == [agent_id |-> agent_id, obj |-> obj]

AgentObjects ==
    {AgentObject(id, obj) : id \in RouterIds \cup {None}, obj \in 1..MaxObjects}

NoObject == 0

\* get_agent: agent_hub.py 235-245 (None for an unknown id)
get_agent(agent_id) ==
    IF agent_id \in agents THEN handle[agent_id].obj ELSE NoObject

\* Variant: an id that is already registered keeps its object.
RegisterEntry_KeepFirst(agent) ==
    IF agent.agent_id \in agents
        THEN handle[agent.agent_id]
        ELSE Registered(agent.obj, Cardinality(agents) + 1)

\* self.agents[agent.agent_id] = agent (216): a known id keeps its place
\* in the dict and gets the new object; a new id goes last.
RegisterEntry(agent) ==
    IF agent.agent_id \in agents
        THEN [handle[agent.agent_id] EXCEPT !.obj = agent.obj]
        ELSE Registered(agent.obj, Cardinality(agents) + 1)

\* register_agent: agent_hub.py 205-218
RegisterAgent(f, agent) ==
    /\ Idle(f)
    /\ ops < MaxOps
    /\ ops' = ops + 1
    /\ IF agent.agent_id # None
          THEN /\ agents' = agents \cup {agent.agent_id}
               /\ handle' = Put(handle, agent.agent_id, RegisterEntry(agent))
          ELSE UNCHANGED <<agents, handle>>
    /\ fr' = [fr EXCEPT ![f] =
          [Returns(IdleFrame, EmptyMap) EXCEPT
              !.op = "register_agent", !.agent = agent,
              !.ok = (agent.agent_id # None), !.agents0 = agents]]
    /\ UNCHANGED <<managed_agents, team_seq, tasks, quality_assessments,
                   discussions, log, conv_seq, planner_ready, planner_tasks,
                   planner_seq, planning, flows, faults>>
    /\ UNCHANGED <<cacheVars, storeVars>>

Messages == {Reply(<<"hello">>)}

Senders == {SYSTEM, AgentId(BASE, 1)}

\* Whether a send_message outcome called the recipient's receive_message:
\* it did unless the recipient is not registered or the first log write
\* raised.
Received(o, recipient_id) == recipient_id \in agents /\ o.sent # << >>

\* A caller calls send_message: agent_hub.py 286-312.
SendMessage(f, sender_id, recipient_id, message) ==
    /\ Idle(f)
    /\ ops < MaxOps
    /\ ops' = ops + 1
    /\ \E o \in send_message(sender_id, recipient_id, message) :
          /\ Sent(o)
          /\ fr' = [fr EXCEPT ![f] =
                [(IF o.raised THEN Raises(IdleFrame)
                              ELSE Returns(IdleFrame, EmptyMap)) EXCEPT
                    !.op = "send_message", !.sender_id = sender_id,
                    !.recipient_id = recipient_id, !.response = o.response,
                    !.fault = o.fault,
                    !.received = IF Received(o, recipient_id)
                                    THEN {recipient_id} ELSE {},
                    !.log0 = Len(log), !.agents0 = agents]]
    /\ UNCHANGED <<agents, managed_agents, team_seq, tasks, quality_assessments,
                   discussions, planner_ready, planner_tasks, planner_seq,
                   planning, flows>>
    /\ UNCHANGED <<handle, memory, now, cret, sweep, storeVars>>

\* The exclude lists a caller passes (exclude_ids=None behaves as a new
\* empty list).
ExcludeLists == {<< >>} \cup {<<id>> : id \in RouterIds}

Range(seq) == {seq[i] : i \in 1..Len(seq)}

\* Lines 326-330: the sender is appended to the exclude list it was given.
Excluded(sender_id, exclude_ids) ==
    IF sender_id \in Range(exclude_ids) THEN exclude_ids
    ELSE Append(exclude_ids, sender_id)

\* Variant: the sender is not added to the exclude list.
Eligible_WithSender(sender_id, exclude_ids) ==
    InOrder(agents \ Range(exclude_ids))

\* The agents the loop of line 333 delivers to, in the dict's order.
Eligible(sender_id, exclude_ids) ==
    InOrder(agents \ Range(Excluded(sender_id, exclude_ids)))

\* The loop of lines 333-343 over `recipients`: each delivery records the
\* message, calls receive_message and records the response, exactly as
\* send_message does for a registered recipient; a delivery that raises
\* ends the loop and the call.
RECURSIVE Deliveries(_, _, _)
Deliveries(sender_id, message, recipients) ==
    IF recipients = << >>
        THEN {[sent |-> << >>, raised |-> FALSE, responses |-> EmptyMap,
               received |-> {}, fault |-> "none"]}
    ELSE LET agent_id == Head(recipients)
         IN  UNION {
               IF o.raised
                  THEN {[sent |-> o.sent, raised |-> TRUE,
                         responses |-> EmptyMap, fault |-> o.fault,
                         received |-> IF Received(o, agent_id)
                                         THEN {agent_id} ELSE {}]}
                  ELSE {[sent |-> o.sent \o r.sent, raised |-> r.raised,
                         fault |-> r.fault,
                         responses |-> IF r.raised THEN EmptyMap
                                       ELSE Put(r.responses, agent_id, o.response),
                         received |-> r.received \cup {agent_id}] :
                            r \in Deliveries(sender_id, message, Tail(recipients))}
               : o \in send_message(sender_id, agent_id, message)}

\* broadcast_message: agent_hub.py 314-345
BroadcastMessage(f, sender_id, message, exclude_ids) ==
    /\ Idle(f)
    /\ ops < MaxOps
    /\ ops' = ops + 1
    /\ \E o \in Deliveries(sender_id, message, Eligible(sender_id, exclude_ids)) :
          /\ Sent(o)
          /\ fr' = [fr EXCEPT ![f] =
                [(IF o.raised THEN Raises(IdleFrame)
                              ELSE Returns(IdleFrame, o.responses)) EXCEPT
                    !.op = "broadcast_message", !.sender_id = sender_id,
                    !.exclude0 = exclude_ids,
                    !.exclude_ids = Excluded(sender_id, exclude_ids),
                    !.received = o.received, !.fault = o.fault,
                    !.log0 = Len(log), !.agents0 = agents]]
    /\ UNCHANGED <<agents, managed_agents, team_seq, tasks, quality_assessments,
                   discussions, planner_ready, planner_tasks, planner_seq,
                   planning, flows>>
    /\ UNCHANGED <<handle, memory, now, cret, sweep, storeVars>>

\* The router is driven with one object per id.
FirstObjects == {agent \in AgentObjects : agent.obj = 1}

NextRouter ==
    \/ \E f \in flows, agent \in FirstObjects : RegisterAgent(f, agent)
    \/ \E f \in flows, agent_id \in agents : UnregisterAgent(f, agent_id)
    \/ \E f \in flows, sender_id \in Senders, recipient_id \in RouterIds,
          message \in Messages :
            SendMessage(f, sender_id, recipient_id, message)
    \/ \E f \in flows, sender_id \in Senders, message \in Messages,
          exclude_ids \in ExcludeLists :
            BroadcastMessage(f, sender_id, message, exclude_ids)

SpecRouter == Init /\ [][NextRouter]_vars

NextRegistry ==
    \/ \E f \in flows, agent \in AgentObjects : RegisterAgent(f, agent)
    \/ \E f \in flows, agent_id \in agents : UnregisterAgent(f, agent_id)
    \/ \E f \in flows : InitializeTeam(f)

SpecRegistry == Init /\ [][NextRegistry]_vars

---------------------------------------------------------------------------
(* ShortTermMemory: app/memory/short_term.py *)

notCacheVars == <<hubVars, fr, flows, faults, ops, handle, storeVars>>

Keys == {"k1", "k2"}
Values == {"v1", "v2"}
Ttls == {NoTtl} \cup {Ttl(n) : n \in 0..MaxTtl}

\* The clock stops at MaxTime; an entry is only written when the clock can
\* still pass its expiry.
CanExpire(ttl) == ttl.set => now + ttl.secs < MaxTime

\* Time passes.
Tick ==
    /\ now < MaxTime
    /\ now' = now + 1
    /\ UNCHANGED <<memory, cret, sweep>>
    /\ UNCHANGED notCacheVars

\* add: 31-49
Add(key, value, ttl) ==
    /\ CanExpire(ttl)
    /\ memory' = Put(memory, key, Entry(value, now, ttl))
    /\ cret' = CacheCall("add", key, TRUE, NoValue)
    /\ UNCHANGED <<now, sweep>>
    /\ UNCHANGED notCacheVars

Remove(map, keys) == [k \in DOMAIN map \ keys |-> map[k]]

\* get: 51-70.  The clock is read under the lock.
Get(key) ==
    /\ IF key \in DOMAIN memory
          THEN IF Live(memory[key], now)
                  THEN /\ cret' = CacheCall("get", key, TRUE, memory[key].value)
                       /\ UNCHANGED memory
                  ELSE /\ memory' = Remove(memory, {key})
                       /\ cret' = CacheCall("get", key, FALSE, NoValue)
          ELSE /\ cret' = CacheCall("get", key, FALSE, NoValue)
               /\ UNCHANGED memory
    /\ UNCHANGED <<now, sweep>>
    /\ UNCHANGED notCacheVars

\* update: 72-91.  The entry is not tested for expiry.
Update(key, value, reset_ttl) ==
    /\ IF key \in DOMAIN memory
          THEN /\ reset_ttl => CanExpire(memory[key].ttl)
               /\ memory' = [memory EXCEPT
                     ![key].value = value,
                     ![key].timestamp = IF reset_ttl THEN now ELSE @]
               /\ cret' = CacheCall("update", key, TRUE, NoValue)
          ELSE /\ cret' = CacheCall("update", key, FALSE, NoValue)
               /\ UNCHANGED memory
    /\ UNCHANGED <<now, sweep>>
    /\ UNCHANGED notCacheVars

\* delete: 93-107
Delete(key) ==
    /\ memory' = Remove(memory, {key})
    /\ cret' = CacheCall("delete", key, key \in DOMAIN memory, NoValue)
    /\ UNCHANGED <<now, sweep>>
    /\ UNCHANGED notCacheVars

\* Variant: the sweep finds nothing to remove.
KeysToRemove_None(current_time) == {}

\* keys_to_remove of clear_expired (126-129)
KeysToRemove(current_time) ==
    {key \in DOMAIN memory : SweepExpired(memory[key], current_time)}

\* _cleanup_loop (135-141) wakes up and enters clear_expired, which reads
\* the clock (124) before it takes the lock.
ClearExpiredReadClock ==
    /\ sweep.pc = "sleep"
    /\ sweep' = [pc |-> "locked", current_time |-> now]
    /\ UNCHANGED <<memory, now, cret>>
    /\ UNCHANGED notCacheVars

\* clear_expired under the lock (125-133); the thread goes back to sleep.
ClearExpiredLocked ==
    /\ sweep.pc = "locked"
    /\ memory' = Remove(memory, KeysToRemove(sweep.current_time))
    /\ sweep' = SweepIdle
    /\ UNCHANGED <<now, cret>>
    /\ UNCHANGED notCacheVars

NextCache ==
    \/ Tick
    \/ \E key \in Keys, value \in Values, ttl \in Ttls : Add(key, value, ttl)
    \/ \E key \in Keys : Get(key)
    \/ \E key \in Keys, value \in Values, reset_ttl \in BOOLEAN :
          Update(key, value, reset_ttl)
    \/ \E key \in Keys : Delete(key)
    \/ ClearExpiredReadClock
    \/ ClearExpiredLocked

SpecCache == Init /\ [][NextCache]_vars

\* The clock advances and the cleanup thread, a daemon thread that loops
\* for ever, keeps being scheduled.
LiveCache ==
    /\ SpecCache
    /\ WF_vars(Tick)
    /\ WF_vars(ClearExpiredReadClock)
    /\ WF_vars(ClearExpiredLocked)

---------------------------------------------------------------------------
(* ShortTermMemory under threads: app/memory/short_term.py *)

\* The ttl argument of the callers.
ThreadTtls == {Ttl(MaxTtl - 1)}

\* The callers share one key, and each writes a value of its own.
ThreadKeys == {"k1"}
ThreadValue(t) == IF t % 2 = 1 THEN "v1" ELSE "v2"

\* The callers' calls; clear_expired is the cleanup thread's.
CallerOps == {"add", "get", "update", "delete", "clear", "get_all"}

\* Variant: the lock lets every thread in.
LockFree_Always(t) == TRUE

\* threading.RLock (25): free, or already held by the thread that asks.
LockFree(t) == lock \subseteq {t}

\* The positions between `with self.lock:` and the end of that block.
InSection(pc) == pc \in {"locked", "found", "del", "release"}

ThreadStep(t, frame) ==
    /\ threads' = [threads EXCEPT ![t] = frame]
    /\ UNCHANGED <<db, call, now, cret, sweep>>
    /\ UNCHANGED <<hubVars, fr, flows, faults, handle>>

\* A caller enters add, get, update, delete, clear or get_all; get_all
\* reads the clock (151) before it asks for the lock.
ThreadCall(t, op, key, value, ttl, reset_ttl) ==
    /\ t # CleanupThread
    /\ threads[t].pc = "idle"
    /\ ops < MaxCalls
    /\ ops' = ops + 1
    /\ op = "add" => CanExpire(ttl)
    /\ ThreadStep(t, [ThreadIdle EXCEPT
          !.op = op, !.pc = "acquire", !.key = key, !.value = value,
          !.ttl = ttl, !.reset_ttl = reset_ttl,
          !.current_time = IF op = "get_all" THEN now ELSE 0])
    /\ UNCHANGED <<memory, lock>>

\* _cleanup_loop (135-141) wakes up and enters clear_expired, which reads
\* the clock (124) before it asks for the lock.
ThreadSweep(t) ==
    /\ t = CleanupThread
    /\ threads[t].pc = "idle"
    /\ ThreadStep(t, [ThreadIdle EXCEPT
          !.op = "clear_expired", !.pc = "acquire", !.current_time = now])
    /\ UNCHANGED <<memory, lock, ops>>

\* `with self.lock:` is entered.
ThreadAcquire(t) ==
    /\ threads[t].pc = "acquire"
    /\ LockFree(t)
    /\ lock' = lock \cup {t}
    /\ ThreadStep(t, [threads[t] EXCEPT !.pc = "locked"])
    /\ UNCHANGED <<memory, ops>>

\* The frame of a call that raised KeyError; the with block is left.
KeyError(frame) == [frame EXCEPT !.pc = "release", !.exc = "KeyError"]

\* The first statement under the lock.
\*   add 44-48, clear 114: the write.
\*   get 62, update 85, delete 104: the test `key in self.memory`.
\*   clear_expired 126-129: keys_to_remove is collected.
\*   get_all 153-155: the live entries are copied.
ThreadLocked(t) ==
    LET frame == threads[t] IN
    /\ frame.pc = "locked"
    /\ CASE frame.op = "add" ->
              /\ memory' = Put(memory, frame.key,
                               Entry(frame.value, now, frame.ttl))
              /\ ThreadStep(t, [frame EXCEPT !.pc = "release", !.ok = TRUE])
         [] frame.op = "clear" ->
              /\ memory' = EmptyMap
              /\ ThreadStep(t, [frame EXCEPT !.pc = "release"])
         [] frame.op \in {"get", "update", "delete"} ->
              /\ UNCHANGED memory
              /\ ThreadStep(t, [frame EXCEPT
                    !.pc = IF frame.key \in DOMAIN memory
                              THEN "found" ELSE "release"])
         [] frame.op = "clear_expired" ->
              /\ UNCHANGED memory
              /\ ThreadStep(t, [frame EXCEPT
                    !.pc = "del",
                    !.keys_to_remove = KeysToRemove(frame.current_time)])
         [] frame.op = "get_all" ->
              /\ UNCHANGED memory
              /\ ThreadStep(t, [frame EXCEPT
                    !.pc = "release",
                    !.result =
                        [k \in {key \in DOMAIN memory :
                                   Live(memory[key], frame.current_time)}
                           |-> memory[k].value]])
    /\ UNCHANGED <<lock, ops>>

\* The statement after a successful test: `data = self.memory[key]` of
\* get (63-69) and update (86-90), `del self.memory[key]` of delete (105).
\* Each raises KeyError when the key is no longer there.
ThreadFound(t) ==
    LET frame == threads[t] IN
    /\ frame.pc = "found"
    /\ IF frame.key \notin DOMAIN memory
          THEN /\ UNCHANGED memory
               /\ ThreadStep(t, KeyError(frame))
          ELSE CASE frame.op = "get" ->
                    /\ UNCHANGED memory
                    /\ ThreadStep(t,
                          IF Live(memory[frame.key], now)
                             THEN [frame EXCEPT
                                     !.pc = "release", !.ok = TRUE,
                                     !.ret = memory[frame.key].value]
                             ELSE [frame EXCEPT !.pc = "del"])
               [] frame.op = "update" ->
                    /\ frame.reset_ttl => CanExpire(memory[frame.key].ttl)
                    /\ memory' = [memory EXCEPT
                          ![frame.key].value = frame.value,
                          ![frame.key].timestamp =
                              IF frame.reset_ttl THEN now ELSE @]
                    /\ ThreadStep(t, [frame EXCEPT
                          !.pc = "release", !.ok = TRUE])
               [] frame.op = "delete" ->
                    /\ memory' = Remove(memory, {frame.key})
                    /\ ThreadStep(t, [frame EXCEPT
                          !.pc = "release", !.ok = TRUE])
    /\ UNCHANGED <<lock, ops>>

\* `del self.memory[key]`: of get for the expired entry (69), of
\* clear_expired for the next key of keys_to_remove (130-132).
ThreadDel(t) ==
    LET frame == threads[t] IN
    /\ frame.pc = "del"
    /\ IF frame.op = "get"
          THEN IF frame.key \in DOMAIN memory
                  THEN /\ memory' = Remove(memory, {frame.key})
                       /\ ThreadStep(t, [frame EXCEPT !.pc = "release"])
                  ELSE /\ UNCHANGED memory
                       /\ ThreadStep(t, KeyError(frame))
          ELSE IF frame.keys_to_remove = {}
                  THEN /\ UNCHANGED memory
                       /\ ThreadStep(t, [frame EXCEPT !.pc = "release"])
                  ELSE \E key \in frame.keys_to_remove :
                          IF key \in DOMAIN memory
                             THEN /\ memory' = Remove(memory, {key})
                                  /\ ThreadStep(t, [frame EXCEPT
                                        !.keys_to_remove = @ \ {key},
                                        !.count = @ + 1])
                             ELSE /\ UNCHANGED memory
                                  /\ ThreadStep(t, KeyError(frame))
    /\ UNCHANGED <<lock, ops>>

\* The with block is left, by its end or by the exception, and the call
\* is over.
ThreadRelease(t) ==
    /\ threads[t].pc = "release"
    /\ lock' = lock \ {t}
    /\ ThreadStep(t, ThreadIdle)
    /\ UNCHANGED <<memory, ops>>

NextThreads ==
    \/ Tick
    \/ \E t \in ThreadIds, op \in CallerOps, key \in ThreadKeys,
          value \in Values \cup {NoValue}, ttl \in ThreadTtls,
          reset_ttl \in BOOLEAN :
          /\ value = IF op \in {"add", "update"} THEN ThreadValue(t)
                                                ELSE NoValue
          /\ op # "update" => reset_ttl = FALSE
          /\ ThreadCall(t, op, key, value, ttl, reset_ttl)
    \/ \E t \in ThreadIds : ThreadSweep(t)
    \/ \E t \in ThreadIds : ThreadAcquire(t)
    \/ \E t \in ThreadIds : ThreadLocked(t)
    \/ \E t \in ThreadIds : ThreadFound(t)
    \/ \E t \in ThreadIds : ThreadDel(t)
    \/ \E t \in ThreadIds : ThreadRelease(t)

SpecThreads == Init /\ [][NextThreads]_vars

---------------------------------------------------------------------------
(* The SQLite store: app/database/db_manager.py, app/memory/long_term.py,  *)
(* and the conversation queries of app/agents/agent_hub.py.                *)
(* execute_update and execute_query open a connection of their own and     *)
(* run one statement in one transaction, so each call is one step; SQLite  *)
(* lets one writer in at a time and a writer that cannot get the database  *)
(* raises.  CURRENT_TIMESTAMP is the clock in whole seconds.               *)

ConversationRow(id, sender_id, recipient_id, message, timestamp) ==
    [id |-> id, sender_id |-> sender_id, recipient_id |-> recipient_id,
     message |-> message, timestamp |-> timestamp]

MemoryRow(id, agent_id, memory_type, content, metadata, created_at) ==
    [id |-> id, agent_id |-> agent_id, memory_type |-> memory_type,
     content |-> content, metadata |-> metadata, created_at |-> created_at]

\* A row of the planning table (init_db 61-72); record_planning leaves
\* created_at and updated_at to their default, the current time.
LedgerRow(id, task_id, agent_id, plan_type, content, status, created_at) ==
    [id |-> id, task_id |-> task_id, agent_id |-> agent_id,
     plan_type |-> plan_type, content |-> content, status |-> status,
     created_at |-> created_at, updated_at |-> created_at]

\* metadata=None, and a dict as the sequence of its items.
NoMetadata == [given |-> FALSE, items |-> << >>]
Dict(items) == [given |-> TRUE, items |-> items]

\* store_memory 137: json.dumps(metadata) if metadata else None.  An
\* empty dict is falsy and is stored as NULL too.
SqlNull == [null |-> TRUE, json |-> << >>]
json_dumps(items) == [null |-> FALSE, json |-> items]
StoredMetadata(metadata) ==
    IF metadata.given /\ metadata.items # << >>
        THEN json_dumps(metadata.items) ELSE SqlNull

\* The limit defaults of get_conversation_between and of
\* retrieve_memories_by_timeframe.
DefaultConversationLimit == 20
DefaultMemoryLimit == 10

\* Variant: the id after the largest rowid present (a plain INTEGER
\* PRIMARY KEY).
NextRowId_MaxRowid(d, table) ==
    LET ids == {d[table][i].id : i \in 1..Len(d[table])}
    IN  IF ids = {} THEN 1
        ELSE (CHOOSE n \in ids : \A m \in ids : m <= n) + 1

\* INTEGER PRIMARY KEY AUTOINCREMENT (init_db 40, 51, 62): one more than
\* the largest id the table has ever held.
NextRowId(d, table) == d.seq[table] + 1

\* An INSERT: the row is added and sqlite_sequence follows.
InsertRow(d, table, row) ==
    [d EXCEPT ![table] = Append(@, row), !.seq[table] = row.id]

\* Variant: the rows that stay are renumbered from 1.
DeleteRows_Renumber(rows, ids) ==
    LET kept == SelectSeq(rows, LAMBDA r : r.id \notin ids)
    IN  [i \in 1..Len(kept) |-> [kept[i] EXCEPT !.id = i]]

\* A DELETE: the rows the WHERE clause selects (by id) are removed.
DeleteRows(rows, ids) == SelectSeq(rows, LAMBDA r : r.id \notin ids)

\* cursor.lastrowid (121) after a statement that is not an INSERT, on the
\* connection execute_update has just opened: no row was ever inserted
\* through it.
LastRowIdWithoutInsert == 0

\* A call on the store: its name and arguments, whether it returned or
\* raised, and what it returned.
StoreCall(op, args, outcome, ret) ==
    [op |-> op, args |-> args, outcome |-> outcome, ret |-> ret]

StoreStep(d, c) ==
    /\ ops < MaxStoreCalls
    /\ db' = d
    /\ call' = c
    /\ ops' = ops + 1
    /\ UNCHANGED <<hubVars, fr, flows, handle, memory, now, cret, sweep,
                   lock, threads>>

\* The agents and the texts of the store's callers.
BurstSender == AgentId(RESEARCH, 1)
BurstRecipient == AgentId(CRITIC, 1)
StoreAgents == {BurstSender, BurstRecipient}
StoreMessages == {"hi"}
NoMemoryType == ""
MemoryTypes == {"thinking"}
Metadatas == {NoMetadata, Dict(<< <<"k", "v">> >>)}

\* record_conversation (db_manager 174-191): the store after the INSERT.
record_conversation(sender_id, recipient_id, message) ==
    InsertRow(db, "conversations",
              ConversationRow(NextRowId(db, "conversations"), sender_id,
                              recipient_id, message, now))

RecordConversation(sender_id, recipient_id, message) ==
    /\ StoreStep(record_conversation(sender_id, recipient_id, message),
                 StoreCall("record_conversation",
                           <<sender_id, recipient_id, message>>,
                           "returned", NextRowId(db, "conversations")))
    /\ UNCHANGED faults

\* store_memory: long_term 34-47, db_manager 125-148
StoreMemory(agent_id, memory_type, content, metadata) ==
    LET id == NextRowId(db, "memories")
    IN  /\ StoreStep(InsertRow(db, "memories",
                         MemoryRow(id, agent_id, memory_type, content,
                                   StoredMetadata(metadata), now)),
                     StoreCall("store_memory",
                               <<agent_id, memory_type, content, metadata>>,
                               "returned", id))
        /\ UNCHANGED faults

\* record_planning (db_manager 212-231): the store after the INSERT.
record_planning(d, task_id, agent_id, plan_type, content, status) ==
    InsertRow(d, "planning",
              LedgerRow(NextRowId(d, "planning"), task_id, agent_id,
                        plan_type, content, status, now))

RecordPlanning(task_id, agent_id, plan_type, content) ==
    /\ StoreStep(record_planning(db, task_id, agent_id, plan_type, content,
                                 "pending"),
                 StoreCall("record_planning",
                           <<task_id, agent_id, plan_type, content>>,
                           "returned", NextRowId(db, "planning")))
    /\ UNCHANGED faults

\* A writer that cannot get the database within the connection's timeout:
\* cursor.execute raises sqlite3.OperationalError and nothing is written.
WriteRaises(op) ==
    /\ CanFault
    /\ faults' = faults + 1
    /\ StoreStep(db, StoreCall(op, << >>, "raised", 0))

\* delete_conversation: agent_hub 502-515 (conversation.py 189-202)
DeleteConversation(conversation_id) ==
    LET result == LastRowIdWithoutInsert
    IN  /\ StoreStep([db EXCEPT !.conversations =
                            DeleteRows(@, {conversation_id})],
                     StoreCall("delete_conversation", <<conversation_id>>,
                               "returned", result > 0))
        /\ UNCHANGED faults

\* clear_conversations: agent_hub 517-533 (conversation.py 204-220)
ClearConversations(agent_id) ==
    LET rows == db.conversations
        ids == {rows[i].id : i \in
                   {i \in 1..Len(rows) :
                       \/ agent_id = None
                       \/ rows[i].sender_id = agent_id
                       \/ rows[i].recipient_id = agent_id}}
        result == LastRowIdWithoutInsert
    IN  /\ StoreStep([db EXCEPT !.conversations = DeleteRows(@, ids)],
                     StoreCall("clear_conversations", <<agent_id>>,
                               "returned", result))
        /\ UNCHANGED faults

\* delete_memory: long_term 120-133
DeleteMemory(memory_id) ==
    LET result == LastRowIdWithoutInsert
    IN  /\ StoreStep([db EXCEPT !.memories = DeleteRows(@, {memory_id})],
                     StoreCall("delete_memory", <<memory_id>>,
                               "returned", result > 0))
        /\ UNCHANGED faults

\* clear_memories: long_term 135-163
ClearMemories(agent_id, memory_type) ==
    LET rows == db.memories
        ids == {rows[i].id : i \in
                   {i \in 1..Len(rows) :
                       /\ agent_id # None => rows[i].agent_id = agent_id
                       /\ memory_type # NoMemoryType =>
                              rows[i].memory_type = memory_type}}
        result == LastRowIdWithoutInsert
    IN  /\ StoreStep([db EXCEPT !.memories = DeleteRows(@, ids)],
                     StoreCall("clear_memories", <<agent_id, memory_type>>,
                               "returned", result))
        /\ UNCHANGED faults

\* ORDER BY <time> DESC LIMIT ?: the rows (given in rowid order, with
\* their times) sorted by time, latest first, rows of equal time in
\* rowid order as SQLite's sorter leaves them; the first `limit` of them.
RECURSIVE OrderByTimeDesc(_, _)
OrderByTimeDesc(rows, times) ==
    IF rows = << >> THEN << >>
    ELSE LET first == CHOOSE i \in 1..Len(rows) :
                        /\ \A j \in 1..Len(rows) : times[j] <= times[i]
                        /\ \A j \in 1..(i - 1) : times[j] < times[i]
             Rest(seq) == SubSeq(seq, 1, first - 1)
                             \o SubSeq(seq, first + 1, Len(seq))
         IN  <<rows[first]>> \o OrderByTimeDesc(Rest(rows), Rest(times))

Limit(rows, limit) ==
    SubSeq(rows, 1, IF Len(rows) < limit THEN Len(rows) ELSE limit)

\* get_conversation_between: agent_hub 365-383
get_conversation_between(agent1_id, agent2_id, limit) ==
    LET rows == SelectSeq(db.conversations, LAMBDA r :
                    \/ r.sender_id = agent1_id /\ r.recipient_id = agent2_id
                    \/ r.sender_id = agent2_id /\ r.recipient_id = agent1_id)
    IN  Limit(OrderByTimeDesc(rows,
                  [i \in 1..Len(rows) |-> rows[i].timestamp]), limit)

GetConversationBetween(agent1_id, agent2_id) ==
    /\ StoreStep(db, StoreCall("get_conversation_between",
                     <<agent1_id, agent2_id>>, "returned",
                     get_conversation_between(agent1_id, agent2_id,
                                              DefaultConversationLimit)))
    /\ UNCHANGED faults

\* retrieve_memories_by_timeframe: long_term 88-118.  end_time=None is
\* the current time; BETWEEN takes both ends in.
retrieve_memories_by_timeframe(agent_id, start_time, end_time, memory_type, limit) ==
    LET rows == SelectSeq(db.memories, LAMBDA r :
                    /\ r.agent_id = agent_id
                    /\ start_time <= r.created_at
                    /\ r.created_at <= end_time
                    /\ memory_type # NoMemoryType =>
                           r.memory_type = memory_type)
    IN  Limit(OrderByTimeDesc(rows,
                  [i \in 1..Len(rows) |-> rows[i].created_at]), limit)

RetrieveMemoriesByTimeframe(agent_id, start_time, end_time, memory_type) ==
    /\ StoreStep(db, StoreCall("retrieve_memories_by_timeframe",
                     <<agent_id, start_time, end_time, memory_type>>,
                     "returned",
                     retrieve_memories_by_timeframe(
                         agent_id, start_time, end_time, memory_type,
                         DefaultMemoryLimit)))
    /\ UNCHANGED faults

StoreWrites ==
    {"record_conversation", "store_memory", "record_planning",
     "delete_conversation", "clear_conversations", "delete_memory",
     "clear_memories"}

NextStore ==
    \/ Tick
    \/ \E sender_id \in StoreAgents, recipient_id \in StoreAgents,
          message \in StoreMessages :
          /\ sender_id # recipient_id
          /\ RecordConversation(sender_id, recipient_id, message)
    \/ \E agent_id \in StoreAgents, memory_type \in MemoryTypes,
          metadata \in Metadatas :
          StoreMemory(agent_id, memory_type, "c", metadata)
    \/ \E agent_id \in StoreAgents :
          RecordPlanning(PlannerTaskId(1), agent_id, "task_creation", "c")
    \/ \E op \in StoreWrites : WriteRaises(op)
    \/ \E conversation_id \in 1..(db.seq["conversations"] + 1) :
          DeleteConversation(conversation_id)
    \/ \E agent_id \in StoreAgents \cup {None} :
          ClearConversations(agent_id)
    \/ \E memory_id \in 1..(db.seq["memories"] + 1) :
          DeleteMemory(memory_id)
    \/ \E agent_id \in StoreAgents \cup {None},
          memory_type \in MemoryTypes \cup {NoMemoryType} :
          /\ agent_id # None => memory_type = NoMemoryType
          /\ ClearMemories(agent_id, memory_type)

SpecStore == Init /\ [][NextStore]_vars

\* Memories are stored and recalled by time, conversations are written
\* and read back.
NextRecall ==
    \/ Tick
    \/ \E agent_id \in StoreAgents, memory_type \in MemoryTypes :
          StoreMemory(agent_id, memory_type, "c", NoMetadata)
    \/ \E agent_id \in StoreAgents, start_time \in 0..MaxTime,
          end_time \in 0..MaxTime :
          /\ start_time <= end_time
          /\ RetrieveMemoriesByTimeframe(agent_id, start_time, end_time,
                                         NoMemoryType)
    \/ \E sender_id \in StoreAgents, recipient_id \in StoreAgents,
          message \in StoreMessages :
          /\ sender_id # recipient_id
          /\ RecordConversation(sender_id, recipient_id, message)
    \/ \E agent1_id \in StoreAgents, agent2_id \in StoreAgents :
          /\ agent1_id # agent2_id
          /\ GetConversationBetween(agent1_id, agent2_id)

SpecRecall == Init /\ [][NextRecall]_vars

\* A burst: one agent writes to another again and again, and the
\* conversation between the two is read in both directions.
BurstStep(d, c) ==
    /\ ops < MaxBurst
    /\ db' = d
    /\ call' = c
    /\ ops' = ops + 1
    /\ UNCHANGED <<hubVars, fr, flows, faults, handle, memory, now, cret,
                   sweep, lock, threads>>

BurstRecord(message) ==
    BurstStep(record_conversation(BurstSender, BurstRecipient, message),
              StoreCall("record_conversation",
                        <<BurstSender, BurstRecipient, message>>,
                        "returned", NextRowId(db, "conversations")))

BurstRead(agent1_id, agent2_id) ==
    BurstStep(db, StoreCall("get_conversation_between",
                  <<agent1_id, agent2_id>>, "returned",
                  get_conversation_between(agent1_id, agent2_id,
                                           DefaultConversationLimit)))

NextBurst ==
    \/ Tick
    \/ \E message \in StoreMessages : BurstRecord(message)
    \/ \E agent1_id \in StoreAgents, agent2_id \in StoreAgents :
          /\ agent1_id # agent2_id
          /\ BurstRead(agent1_id, agent2_id)

SpecBurst == Init /\ [][NextBurst]_vars

---------------------------------------------------------------------------
(* TaskPlanner called directly: app/planning/task_planner.py *)

\* Python's list[i]: a negative index counts from the end, and an index
\* outside -len..len-1 raises IndexError.
PyIndexError(seq, i) == i >= Len(seq) \/ i < 0 - Len(seq)
PyIndex(seq, i) == IF i < 0 THEN Len(seq) + i + 1 ELSE i + 1

\* The texts of assign_subtask (202) and execute_subtask (267, 273, 281).
AssignmentText(subtask_id, agent_id) ==
    [kind |-> "subtask_assigned", subtask |-> subtask_id, agent |-> agent_id]
SubtaskNotFound == [kind |-> "subtask_not_found"]
NotAssigned(subtask_id) ==
    [kind |-> "subtask_not_assigned", subtask |-> subtask_id]
ExecuteSubtaskPrompt(description) ==
    [kind |-> "execute_subtask", description |-> description]

\* The planner's callers: the task ids they pass (the planner's own, and
\* one it has never issued), the subtask lists, indexes and agents.  The
\* agent is registered once the hub has initialized its team, which also
\* gives the hub a new planner.
UnknownTask == PlannerTaskId(0)
PlannerTaskIds == {PlannerTaskId(n) : n \in 1..planner_seq} \cup {UnknownTask}
SubtaskLists == {<<"d1">>, <<"d1", "d2">>}
SubtaskIndexes == (0 - MaxIndex)..MaxIndex
PlannerAgents == {AgentId(EXECUTION, 1)}

\* A planner call ends: what all the calls below leave alone.
PlannerStep(c) ==
    /\ ops < MaxPlannerCalls
    /\ ops' = ops + 1
    /\ call' = c
    /\ UNCHANGED <<agents, managed_agents, team_seq, tasks,
                   quality_assessments, discussions, planner_ready,
                   fr, flows, handle, memory, now, cret, sweep,
                   lock, threads, db>>

\* create_task: 30-61
PlannerCreate(task_description) ==
    /\ PlannerCreateTask(task_description, SYSTEM)
    /\ PlannerStep(StoreCall("create_task", <<task_description>>,
                             "returned", PlannerTaskId(planner_seq + 1)))
    /\ UNCHANGED <<log, conv_seq, faults>>

\* update_task_status: 84-109
UpdateTaskStatus(task_id, status) ==
    /\ IF task_id \in DOMAIN planner_tasks
          THEN /\ planner_tasks' =
                      [planner_tasks EXCEPT ![task_id].status = status]
               /\ planning' = Append(planning,
                      PlanningRow(Len(planning) + 1, task_id, SYSTEM,
                                  "status_update", status))
          ELSE UNCHANGED <<planner_tasks, planning>>
    /\ PlannerStep(StoreCall("update_task_status", <<task_id, status>>,
                             "returned", task_id \in DOMAIN planner_tasks))
    /\ UNCHANGED <<planner_seq, log, conv_seq, faults>>

\* decompose_task: 111-147
PlannerDecompose(task_id, subtasks) ==
    /\ DecomposeTask(task_id, subtasks)
    /\ PlannerStep(StoreCall("decompose_task", <<task_id, subtasks>>,
           "returned",
           IF task_id \in DOMAIN planner_tasks
              THEN [i \in 1..Len(subtasks) |-> SubtaskId(task_id, i - 1)]
              ELSE << >>))
    /\ UNCHANGED <<planner_seq, log, conv_seq, faults>>

\* The guard of assign_subtask (191) and execute_subtask (266), and the
\* negation of get_subtask_status's (324).
Refused(task_id, subtask_index) ==
    \/ task_id \notin DOMAIN planner_tasks
    \/ subtask_index >= Len(planner_tasks[task_id].subtasks)

\* assign_subtask: 179-210
AssignSubtask(task_id, subtask_index, agent_id) ==
    LET args == <<task_id, subtask_index, agent_id>>
    IN
    /\ IF Refused(task_id, subtask_index)
          THEN /\ PlannerStep(StoreCall("assign_subtask", args,
                                        "returned", FALSE))
               /\ UNCHANGED <<planner_tasks, planning>>
          ELSE LET subtasks == planner_tasks[task_id].subtasks IN
               IF PyIndexError(subtasks, subtask_index)
                  THEN /\ PlannerStep(StoreCall("assign_subtask", args,
                                                "raised", FALSE))
                       /\ UNCHANGED <<planner_tasks, planning>>
                  ELSE LET k == PyIndex(subtasks, subtask_index)
                           subtask_id == subtasks[k].id
                       IN  /\ planning' = Append(planning,
                                  PlanningRow(Len(planning) + 1, subtask_id,
                                      agent_id, "assignment",
                                      AssignmentText(subtask_id, agent_id)))
                           /\ planner_tasks' = [planner_tasks EXCEPT
                                  ![task_id].subtasks[k] =
                                      [@ EXCEPT !.agent_id = agent_id,
                                                !.status = "assigned"]]
                           /\ PlannerStep(StoreCall("assign_subtask", args,
                                                    "returned", TRUE))
    /\ UNCHANGED <<planner_seq, log, conv_seq, faults>>

\* execute_subtask: 255-297.  The hub's send_message answers, or raises
\* and leaves the subtask in_progress.
ExecuteSubtask(task_id, subtask_index) ==
    LET args == <<task_id, subtask_index>>
        Unchanged == UNCHANGED <<planner_tasks, planning, log, conv_seq,
                                 faults>>
    IN
    /\ IF Refused(task_id, subtask_index)
          THEN /\ PlannerStep(StoreCall("execute_subtask", args,
                                        "returned", SubtaskNotFound))
               /\ Unchanged
          ELSE LET subtasks == planner_tasks[task_id].subtasks IN
               IF PyIndexError(subtasks, subtask_index)
                  THEN /\ PlannerStep(StoreCall("execute_subtask", args,
                                                "raised", NoText))
                       /\ Unchanged
                  ELSE LET k == PyIndex(subtasks, subtask_index)
                           subtask == subtasks[k]
                       IN
                       IF subtask.agent_id = None
                          THEN /\ PlannerStep(StoreCall("execute_subtask",
                                      args, "returned",
                                      NotAssigned(subtask.id)))
                               /\ Unchanged
                          ELSE \E o \in send_message(SYSTEM, subtask.agent_id,
                                     ExecuteSubtaskPrompt(subtask.description)) :
                                  /\ Sent(o)
                                  /\ planner_tasks' = [planner_tasks EXCEPT
                                        ![task_id].subtasks[k].status =
                                            IF o.raised THEN "in_progress"
                                                        ELSE "completed"]
                                  /\ planning' =
                                        IF o.raised THEN planning
                                        ELSE Append(planning,
                                               PlanningRow(Len(planning) + 1,
                                                   subtask.id,
                                                   subtask.agent_id,
                                                   "execution", o.response))
                                  /\ PlannerStep(StoreCall("execute_subtask",
                                        args,
                                        IF o.raised THEN "raised"
                                                    ELSE "returned",
                                        o.response))
    /\ UNCHANGED planner_seq

\* get_subtask_status: 313-326
NoStatus == "None"
GetSubtaskStatus(task_id, subtask_index) ==
    LET args == <<task_id, subtask_index>>
    IN
    /\ PlannerStep(
          IF Refused(task_id, subtask_index)
             THEN StoreCall("get_subtask_status", args, "returned", NoStatus)
             ELSE LET subtasks == planner_tasks[task_id].subtasks IN
                  IF PyIndexError(subtasks, subtask_index)
                     THEN StoreCall("get_subtask_status", args, "raised",
                                    NoStatus)
                     ELSE StoreCall("get_subtask_status", args, "returned",
                              subtasks[PyIndex(subtasks, subtask_index)].status))
    /\ UNCHANGED <<planner_tasks, planner_seq, planning, log, conv_seq,
                   faults>>

\* get_planning_by_task (db_manager 252-266): the rows whose task_id
\* column equals the argument, ORDER BY created_at; rows are inserted as
\* time goes, and rows of one second stay in rowid order.
get_planning_by_task(task_id) ==
    SelectSeq(planning, LAMBDA row :
        /\ Len(row.task_id) = Len(task_id)
        /\ row.task_id = task_id)

\* get_task_history: 328-338
GetTaskHistory(task_id) ==
    /\ PlannerStep(StoreCall("get_task_history", <<task_id>>, "returned",
                             get_planning_by_task(task_id)))
    /\ UNCHANGED <<planner_tasks, planner_seq, planning, log, conv_seq,
                   faults>>

NextPlanner ==
    \/ \E f \in flows : InitializeTeam(f)
    \/ \E task_description \in Descriptions : PlannerCreate(task_description)
    \/ \E task_id \in PlannerTaskIds :
          UpdateTaskStatus(task_id, "in_progress")
    \/ \E task_id \in PlannerTaskIds, subtasks \in SubtaskLists :
          PlannerDecompose(task_id, subtasks)
    \/ \E task_id \in PlannerTaskIds, subtask_index \in SubtaskIndexes,
          agent_id \in PlannerAgents :
          AssignSubtask(task_id, subtask_index, agent_id)
    \/ \E task_id \in PlannerTaskIds, subtask_index \in SubtaskIndexes :
          ExecuteSubtask(task_id, subtask_index)
    \/ \E task_id \in PlannerTaskIds, subtask_index \in SubtaskIndexes :
          GetSubtaskStatus(task_id, subtask_index)
    \/ \E task_id \in PlannerTaskIds : GetTaskHistory(task_id)

SpecPlanner == Init /\ [][NextPlanner]_vars

---------------------------------------------------------------------------
(* Properties *)

\* Flow f's last call was `op` on a task the hub holds, and it has ended.
Ended(f, op) ==
    /\ fr[f].op = op
    /\ fr[f].pc = "idle"
    /\ fr[f].task \in DOMAIN tasks

Returned(f, op) == Ended(f, op) /\ fr[f].outcome = "returned"

\* The rows the log has gained since position `from`.
RowsSince(from) == {log[i] : i \in (from + 1)..Len(log)}

ValidScore(score) ==
    /\ score.den > 0
    /\ 0 <= score.num
    /\ score.num <= score.den

\* C1: once an execute_task invocation on an existing task has ended,
\* however the workers and the log writes behaved, the task is FINISHED
\* (not left RUNNING).
C1_EndedExecuteIsFinished ==
    \A f \in flows :
        Ended(f, "execute_task") => tasks[fr[f].task].state = FINISHED

\* C2: an improve_task_results call never initiates more than
\* max_iterations discussions, and it begins at most one execute_task per
\* discussion plus the initial one: the number of discuss-then-re-execute
\* cycles is bounded by max_iterations whatever the critiques say.
C2_BoundedCycles ==
    \A f \in flows :
        fr[f].op = "improve_task_results" =>
            /\ fr[f].cycles <= fr[f].max_iterations
            /\ fr[f].execs <= fr[f].cycles + 1

\* C2 witness: a call has returned after a full cycle with the score still
\* below min_quality_score.
C2_Witness ==
    \E f \in flows :
        /\ Returned(f, "improve_task_results")
        /\ fr[f].cycles >= 1
        /\ fr[f].execs = fr[f].cycles + 1
        /\ ScoreLess(tasks[fr[f].task].quality_score, fr[f].min_quality_score)

\* C3: when improve_task_results returns for an existing task, the task's
\* score is at least min_quality_score or its iteration count is at least
\* max_iterations, and what is returned is the task's results map.
C3_ReturnMeansDone ==
    \A f \in flows :
        Returned(f, "improve_task_results") =>
            /\ \/ ~ScoreLess(tasks[fr[f].task].quality_score,
                             fr[f].min_quality_score)
               \/ tasks[fr[f].task].iterations >= fr[f].max_iterations
            /\ fr[f].ret = tasks[fr[f].task].results
            /\ "error" \notin DOMAIN fr[f].ret

\* C3 witness: the budget is exhausted after a cycle, the score is still
\* too low, and the call has returned the results.
C3_Witness ==
    \E f \in flows :
        /\ Returned(f, "improve_task_results")
        /\ fr[f].cycles >= 1
        /\ ScoreLess(tasks[fr[f].task].quality_score, fr[f].min_quality_score)
        /\ tasks[fr[f].task].iterations >= fr[f].max_iterations
        /\ fr[f].ret = tasks[fr[f].task].results

\* C4: improve_task_results on an existing task returns (it does not end
\* by raising) whatever agent types are available, as long as no worker
\* call and no log write has raised.
C4_ImproveAlwaysReturns ==
    \A f \in flows :
        (Ended(f, "improve_task_results") /\ faults = 0) =>
            fr[f].outcome = "returned"

\* C5: the critique request is sent only from the barrier with all three
\* dispatches completed, it carries their three results, and while a
\* dispatch of an execute_task round is pending the log holds no critique
\* request of that round.
C5_CritiqueStep ==
    \A i \in (Len(log) + 1)..Len(log') :
        log'[i].message.kind = "critique_request" =>
            \E f \in flows :
                /\ fr[f].pc = "barrier"
                /\ ~fr[f].exc
                /\ \A t \in DispatchTypes : fr[f].res[t].kind # "none"
                /\ log'[i].message.task = fr[f].task
                /\ log'[i].message.research = fr[f].res[RESEARCH]
                /\ log'[i].message.planning = fr[f].res[PLANNING]
                /\ log'[i].message.execution = fr[f].res[EXECUTION]

C5_NoCritiqueWhilePending ==
    \A f \in flows :
        fr[f].pc \in DispatchTypes \cup {"barrier"} =>
            \A row \in RowsSince(fr[f].round0) :
                row.message.kind # "critique_request"

C5_CritiqueAfterBarrier ==
    []C5_NoCritiqueWhilePending /\ [][C5_CritiqueStep]_vars

\* C5 witness: a critique request carrying three worker replies is in the
\* log.
C5_Witness ==
    \E i \in 1..Len(log) :
        /\ log[i].message.kind = "critique_request"
        /\ log[i].message.research.kind = "reply"
        /\ log[i].message.planning.kind = "reply"
        /\ log[i].message.execution.kind = "reply"

\* C6: when execute_task returns for an existing task, the returned map
\* has exactly the keys research, planning, execution and critic, each
\* mapped to a non-empty text, and the task's score is a number in [0,1];
\* the same holds of every task in state FINISHED, so after every
\* execution and not only the first.
FourResults(results) ==
    /\ DOMAIN results = AGENT_TYPE_VALUES
    /\ \A t \in AGENT_TYPE_VALUES : ~IsEmptyText(results[t])

C6_ReturnedResults ==
    /\ \A f \in flows :
          Returned(f, "execute_task") =>
              /\ FourResults(fr[f].ret)
              /\ fr[f].ret = tasks[fr[f].task].results
              /\ ValidScore(tasks[fr[f].task].quality_score)
    /\ \A task_id \in DOMAIN tasks :
          tasks[task_id].state = FINISHED =>
              /\ FourResults(tasks[task_id].results)
              /\ ValidScore(tasks[task_id].quality_score)

\* C6 witness: a second execute_task on a task has returned four worker
\* replies.
C6_Witness ==
    \E f \in flows :
        /\ Returned(f, "execute_task")
        /\ fr[f].iter0 >= 1
        /\ \A t \in AGENT_TYPE_VALUES : fr[f].ret[t].kind = "reply"

\* C7: when execute_task has ended for a task and the hub manages no agent
\* of a type, that type's slot holds "<Type> agent not available", the log
\* has gained no row addressed to or sent by an agent of that type, and the
\* task is FINISHED.
RowTypes(row) == {AgentType(row.sender_id), AgentType(row.recipient_id)}

C8_NoDecrease ==
    \A task_id \in DOMAIN tasks :
        /\ task_id \in DOMAIN tasks'
        /\ tasks'[task_id].iterations >= tasks[task_id].iterations

C8_ExactlyOne ==
    \A f \in flows :
        Ended(f, "execute_task") =>
            tasks[fr[f].task].iterations = fr[f].iter0 + 1

C8_IterationsMonotonic ==
    []C8_ExactlyOne /\ [][C8_NoDecrease]_vars

\* C8 witness: a second execute_task on a task has ended with
\* iterations = 2.
C8_Witness ==
    \E f \in flows :
        /\ Ended(f, "execute_task")
        /\ fr[f].iter0 = 1
        /\ tasks[fr[f].task].iterations = 2

\* C9: once execute_task has ended on a task that was IDLE with
\* iterations 0, the task is FINISHED with iterations = 1.
C9_FreshTaskFinishes ==
    \A f \in flows :
        (Ended(f, "execute_task") /\ fr[f].state0 = IDLE /\ fr[f].iter0 = 0) =>
            /\ tasks[fr[f].task].state = FINISHED
            /\ tasks[fr[f].task].iterations = 1

\* C10: a create_task step that returns an id returns one that no task had
\* before (so one that differs from every id returned earlier), stores
\* under it a task in state IDLE with iterations 0, no results and no
\* score, and leaves the other tasks alone; get_task shows that task until
\* the next operation.
C10_CreateStep ==
    \A f \in flows :
        (fr'[f] # fr[f] /\ fr'[f].op = "create_task"
            /\ fr'[f].outcome = "returned") =>
            /\ fr'[f].ret_id \notin DOMAIN tasks
            /\ fr'[f].ret_id \in DOMAIN tasks'
            /\ \A task_id \in DOMAIN tasks :
                  task_id \in DOMAIN tasks' /\ tasks'[task_id] = tasks[task_id]

C10_Created ==
    \A f \in flows :
        (fr[f].op = "create_task" /\ fr[f].outcome = "returned") =>
            /\ get_task(fr[f].ret_id).state = IDLE
            /\ get_task(fr[f].ret_id).iterations = 0
            /\ get_task(fr[f].ret_id).results = EmptyMap
            /\ get_task(fr[f].ret_id).quality_score = NoScore
            /\ get_task(fr[f].ret_id).description \in Descriptions

OnlyWordsOf(text, words) ==
    /\ text.kind = "reply"
    /\ Len(text.words) > 0
    /\ \A i \in 1..Len(text.words) : text.words[i] \in words

C11_KeywordScores ==
    \A task_id \in DOMAIN quality_assessments :
        LET a == quality_assessments[task_id]
        IN  /\ OnlyWordsOf(a.critique, positive_keywords) =>
                   a.score.den > 0 /\ a.score.num = a.score.den
            /\ OnlyWordsOf(a.critique, negative_keywords) =>
                   a.score.den > 0 /\ a.score.num = 0
            /\ (\A k \in positive_keywords \cup negative_keywords :
                   ~KeywordIn(k, a.critique)) => a.score = Neutral

\* Flow f's last call was the router or registry call `op`, now ended.
Called(f, op) == fr[f].op = op /\ fr[f].pc = "idle"

\* Row i of the log is the message `message` from sender_id to recipient_id.
IsRow(i, sender_id, recipient_id) ==
    /\ i \in 1..Len(log)
    /\ log[i].sender_id = sender_id
    /\ log[i].recipient_id = recipient_id

\* C12: whenever send_message has called the recipient's receive_message,
\* the outgoing message is the first row the call added to the log; and a
\* send to a recipient that is not registered, whose log write succeeds,
\* returns "Agent <id> not found" without raising, calls no
\* receive_message and adds exactly the one outgoing row to the log.
C12_SendToUnknown ==
    \A f \in flows :
        Called(f, "send_message") =>
            /\ fr[f].received # {} =>
                  /\ IsRow(fr[f].log0 + 1, fr[f].sender_id, fr[f].recipient_id)
                  /\ log[fr[f].log0 + 1].message \in Messages
            /\ (fr[f].recipient_id \notin fr[f].agents0 /\ fr[f].fault = "none") =>
                  /\ fr[f].outcome = "returned"
                  /\ fr[f].response =
                        [kind |-> "not_found", agent |-> fr[f].recipient_id]
                  /\ fr[f].received = {}
                  /\ Len(log) = fr[f].log0 + 1
                  /\ IsRow(Len(log), fr[f].sender_id, fr[f].recipient_id)
                  /\ log[Len(log)].message \in Messages

\* C12 witness: a send to an unregistered id has returned while other
\* agents were registered.
C12_Witness ==
    \E f \in flows :
        /\ Called(f, "send_message")
        /\ fr[f].agents0 # {}
        /\ fr[f].recipient_id \notin fr[f].agents0
        /\ fr[f].response.kind = "not_found"
        /\ Len(log) = fr[f].log0 + 1

\* C13: a send_message to a registered recipient that returns has added
\* exactly two rows: the message sender->recipient, then, under a larger
\* id, the response recipient->sender, which is the text returned.  In a
\* broadcast every response row is directly preceded by the outgoing row
\* of the same recipient, and what is returned for a recipient is its
\* response row.
C13_SendPair ==
    \A f \in flows :
        (Called(f, "send_message") /\ fr[f].outcome = "returned"
            /\ fr[f].recipient_id \in fr[f].agents0) =>
            /\ Len(log) = fr[f].log0 + 2
            /\ IsRow(Len(log) - 1, fr[f].sender_id, fr[f].recipient_id)
            /\ log[Len(log) - 1].message \in Messages
            /\ IsRow(Len(log), fr[f].recipient_id, fr[f].sender_id)
            /\ log[Len(log)].message = fr[f].response
            /\ log[Len(log)].id > log[Len(log) - 1].id
            /\ ~IsEmptyText(fr[f].response)

C13_BroadcastPairs ==
    \A f \in flows :
        Called(f, "broadcast_message") =>
            /\ \A j \in (fr[f].log0 + 1)..Len(log) :
                  log[j].sender_id # fr[f].sender_id =>
                      /\ j - 1 > fr[f].log0
                      /\ IsRow(j - 1, fr[f].sender_id, log[j].sender_id)
                      /\ log[j].recipient_id = fr[f].sender_id
                      /\ log[j].id > log[j - 1].id
            /\ fr[f].outcome = "returned" =>
                  \A a \in DOMAIN fr[f].ret :
                      \E j \in (fr[f].log0 + 2)..Len(log) :
                          /\ IsRow(j - 1, fr[f].sender_id, a)
                          /\ IsRow(j, a, fr[f].sender_id)
                          /\ log[j].message = fr[f].ret[a]

EligibleIds(f) ==
    fr[f].agents0 \ ({fr[f].sender_id} \cup Range(fr[f].exclude0))

C14_BroadcastSurvivesFailure ==
    \A f \in flows :
        (Called(f, "broadcast_message") /\ fr[f].fault # "storage") =>
            /\ fr[f].outcome = "returned"
            /\ fr[f].received = EligibleIds(f)

C16_HandleKept ==
    \A agent_id \in agents \cap agents' :
        handle'[agent_id].obj = handle[agent_id].obj

C16_RegisterStep ==
    \A f \in flows :
        (fr'[f] # fr[f] /\ fr'[f].op = "register_agent") =>
            LET agent == fr'[f].agent
            IN  /\ fr'[f].outcome = "returned"
                /\ fr'[f].ok = (agent.agent_id # None)
                /\ agent.agent_id = None => agents' = agents /\ handle' = handle
                /\ agent.agent_id # None =>
                      /\ agent.agent_id \in agents'
                      /\ handle'[agent.agent_id].obj = agent.obj

C16_OneHandlePerId == [][C16_HandleKept /\ C16_RegisterStep]_vars

\* C17: every agent that get_agent_by_type resolves to is registered, so
\* send_message would not answer "not found" for it.
C17_TypeLookupRoutable ==
    \A type \in AGENT_TYPE_VALUES :
        get_agent_by_type(type) # None => get_agent_by_type(type) \in agents

\* C18: a get step returns the stored value exactly when the key is
\* present and its ttl is unset or less than ttl seconds have passed since
\* the entry was written, and then leaves the map alone; in every other
\* case it returns None, and the key (if it was present, it had expired)
\* is gone from the map, the other entries staying.
IsGetStep ==
    /\ cret'.op = "get"
    /\ cret' # cret \/ memory' # memory
    /\ now' = now
    /\ sweep' = sweep

C18_GetStep ==
    IsGetStep =>
        LET key == cret'.key
            served == /\ key \in DOMAIN memory
                      /\ \/ ~memory[key].ttl.set
                         \/ now - memory[key].timestamp < memory[key].ttl.secs
        IN  /\ cret'.ok = served
            /\ served => cret'.value = memory[key].value /\ memory' = memory
            /\ ~served =>
                  /\ cret'.value = NoValue
                  /\ DOMAIN memory' = DOMAIN memory \ {key}
                  /\ \A k \in DOMAIN memory' : memory'[k] = memory[k]

C18_GetReturnsLiveValue == [][C18_GetStep]_vars

\* C18 witness: a get has returned the value of an entry with a ttl that
\* was written earlier and has not expired, and a get of the other key has
\* found nothing.
C18_Witness ==
    /\ cret.op = "get"
    /\ cret.ok
    /\ memory[cret.key].ttl.set
    /\ now > memory[cret.key].timestamp
    /\ cret.value = memory[cret.key].value
    /\ DOMAIN memory = {cret.key}

\* C19: right after a sweep no entry is left that get would treat as
\* expired (ttl set and at least ttl seconds passed since the write), and
\* the sweep has removed no entry whose ttl is unset or has not elapsed.
GetExpired(data, time) ==
    data.ttl.set /\ time - data.timestamp >= data.ttl.secs

C19_SweepStep ==
    (sweep.pc = "locked" /\ sweep'.pc = "sleep") =>
        /\ \A key \in DOMAIN memory' : ~GetExpired(memory'[key], now')
        /\ \A key \in DOMAIN memory \ DOMAIN memory' :
              GetExpired(memory[key], now)
        /\ \A key \in DOMAIN memory' :
              key \in DOMAIN memory /\ memory'[key] = memory[key]

C19_SweepEvictsExpired == [][C19_SweepStep]_vars

\* C20: an entry whose ttl has elapsed is eventually removed from the map
\* (or rewritten), whether or not its key is read again.
C20_KeyEvicted(key) ==
    (key \in DOMAIN memory /\ GetExpired(memory[key], now))
        ~> ~(key \in DOMAIN memory /\ GetExpired(memory[key], now))

C20_EventuallyEvicted == \A key \in Keys : C20_KeyEvicted(key)

\* C20 witness: the last call on the cache was the add of a key with a
\* ttl, and the key is no longer in the map.
C20_Witness ==
    /\ cret.op = "add"
    /\ cret.key \notin DOMAIN memory
    /\ sweep.pc = "sleep"

\* No two threads are between `with self.lock:` and the end of its block.
C21_Exclusive ==
    \A t \in ThreadIds, u \in ThreadIds :
        (t # u /\ InSection(threads[t].pc)) => ~InSection(threads[u].pc)

\* What a call that reached the end of its with block did to the map is
\* still there: the entry add wrote, the value update wrote, the absence
\* delete, clear and clear_expired made, the value get or get_all read.
C21_EffectKept(frame) ==
    CASE frame.op = "add" ->
            /\ frame.key \in DOMAIN memory
            /\ memory[frame.key].value = frame.value
            /\ memory[frame.key].ttl = frame.ttl
      [] frame.op = "update" /\ frame.ok ->
            /\ frame.key \in DOMAIN memory
            /\ memory[frame.key].value = frame.value
      [] frame.op = "delete" /\ frame.ok -> frame.key \notin DOMAIN memory
      [] frame.op = "clear" -> memory = EmptyMap
      [] frame.op = "get" /\ frame.ok ->
            /\ frame.key \in DOMAIN memory
            /\ memory[frame.key].value = frame.ret
      [] frame.op = "get_all" ->
            \A k \in DOMAIN frame.result :
                k \in DOMAIN memory /\ memory[k].value = frame.result[k]
      [] frame.op = "clear_expired" ->
            KeysToRemove(frame.current_time) = {}
      [] OTHER -> TRUE

\* C21: add, get, update, delete, clear, get_all and the cleanup thread's
\* clear_expired exclude each other on the map: under every interleaving
\* of the callers and the cleanup thread at most one thread is inside
\* its critical section, no call raises KeyError for a key that another
\* call has removed, and when a call leaves its critical section what it
\* wrote to (or read from) the map is what the map holds.
C21_Serialized ==
    /\ C21_Exclusive
    /\ \A t \in ThreadIds :
          /\ threads[t].exc = "none"
          /\ threads[t].pc = "release" => C21_EffectKept(threads[t])

\* C21 witness: the cleanup thread is removing an expired key under the
\* lock while a caller that wants to get or delete that key waits for
\* the lock.
C21_Witness ==
    /\ threads[CleanupThread].pc = "del"
    /\ threads[CleanupThread].keys_to_remove # {}
    /\ \E t \in ThreadIds :
          /\ threads[t].pc = "acquire"
          /\ threads[t].op \in {"get", "delete"}
          /\ threads[t].key \in threads[CleanupThread].keys_to_remove

\* C22: when get_conversation_between(a, b) has returned, its rows
\* include the row of the latest record_conversation between a and b
\* (whatever else the table holds), and they are the same set of rows as
\* get_conversation_between(b, a) gives.
C22_RoundTrip ==
    call.op = "get_conversation_between" =>
        LET rows == db.conversations
            read == Range(call.ret)
        IN  /\ rows # << >> => rows[Len(rows)] \in read
            /\ read = Range(get_conversation_between(
                                call.args[2], call.args[1],
                                DefaultConversationLimit))

\* The table an insert call writes to.
C23_TableOf(op) ==
    CASE op = "record_conversation" -> "conversations"
      [] op = "store_memory" -> "memories"
      [] op = "record_planning" -> "planning"

C23_Ids(rows) == {rows[i].id : i \in 1..Len(rows)}

\* One step of the store, seen from table `table`.
C23_TableStep(table) ==
    \* the ids handed out so far are never forgotten,
    /\ db'.seq[table] >= db.seq[table]
    /\ \A id \in C23_Ids(db[table]) : id <= db.seq[table]
    \* and an insert that returns gives an id above all of them, adds its
    \* own row under that id and loses no row that was there.
    /\ (/\ ops' = ops + 1
        /\ call'.op \in {"record_conversation", "store_memory",
                         "record_planning"}
        /\ call'.outcome = "returned"
        /\ C23_TableOf(call'.op) = table)
       => /\ call'.ret > db.seq[table]
          /\ db'.seq[table] = call'.ret
          /\ Len(db'[table]) = Len(db[table]) + 1
          /\ db'[table][Len(db'[table])].id = call'.ret
          /\ SubSeq(db'[table], 1, Len(db[table])) = db[table]
          /\ Cardinality(C23_Ids(db'[table])) = Len(db'[table])

\* C23: every record_conversation, store_memory and record_planning that
\* returns gives an id strictly greater than every id the table has handed
\* out before, also after rows were deleted or the table was cleared; the
\* writers' transactions, in whatever order they interleave, each add
\* their own row under their own id and remove no other row.
C23_MonotonicIds == [][\A table \in Tables : C23_TableStep(table)]_vars

\* C23 witness: after a row was deleted or a table cleared, an insert has
\* returned an id above the largest id still present plus one.
C23_Witness ==
    /\ call.op \in {"record_conversation", "store_memory"}
    /\ call.outcome = "returned"
    /\ LET rows == db[C23_TableOf(call.op)]
       IN  /\ Len(rows) = 1
           /\ call.ret > 1
           /\ rows[1].id = call.ret

\* The row of `rows` that has the id `id`.
C24_RowOf(rows, id) == rows[CHOOSE i \in 1..Len(rows) : rows[i].id = id]

\* A step leaves every row that is there before and after as it was, a
\* row that is new is the row of the insert that has just returned, and a
\* row that is gone was removed by a delete or clear that has returned.
C24_RowsKept(table) ==
    /\ C23_Ids(db[table]) \subseteq C23_Ids(db'[table])
        \/ /\ call'.op \in {"delete_conversation", "clear_conversations",
                             "delete_memory", "clear_memories"}
           /\ call'.outcome = "returned"
    /\ \A i \in 1..Len(db'[table]) :
        LET row == db'[table][i]
        IN  IF row.id \in C23_Ids(db[table])
               THEN row = C24_RowOf(db[table], row.id)
               ELSE /\ call'.op \in {"record_conversation", "store_memory"}
                    /\ C23_TableOf(call'.op) = table
                    /\ call'.ret = row.id
                    /\ row = IF table = "conversations"
                                THEN ConversationRow(row.id, call'.args[1],
                                         call'.args[2], call'.args[3], now)
                                ELSE MemoryRow(row.id, call'.args[1],
                                         call'.args[2], call'.args[3],
                                         StoredMetadata(call'.args[4]), now)

\* C24: rows of the conversations and the memories table never change:
\* over every step of the store a row that is still present has the
\* sender, recipient, message and timestamp (the agent, type, content,
\* metadata and created_at) it was written with; a row only appears by
\* its insert and only goes away by a delete or clear.
C24_RowsImmutable ==
    [][C24_RowsKept("conversations") /\ C24_RowsKept("memories")]_vars

\* C24 witness: a delete or clear has returned and left behind a row
\* that was written at an earlier time.
C24_Witness ==
    /\ call.op \in {"delete_conversation", "clear_conversations",
                    "delete_memory", "clear_memories"}
    /\ call.outcome = "returned"
    /\ \/ \E i \in 1..Len(db.conversations) :
             db.conversations[i].timestamp < now
       \/ \E i \in 1..Len(db.memories) : db.memories[i].created_at < now

\* C25: retrieve_memories_by_timeframe(agent, start, end) returns exactly
\* the agent's rows whose created_at t satisfies start <= t < end: a row
\* created at start is returned, a row created at end is not.
C25_HalfOpenRange ==
    (call.op = "retrieve_memories_by_timeframe"
        /\ call.outcome = "returned") =>
        Range(call.ret) =
            {row \in Range(db.memories) :
                /\ row.agent_id = call.args[1]
                /\ call.args[2] <= row.created_at
                /\ row.created_at < call.args[3]}

\* A delete call has returned in this step.
C26_Returned(op) ==
    /\ ops' = ops + 1
    /\ call'.op = op
    /\ call'.outcome = "returned"

\* delete_<x>(id) on `table`: True and the row gone if it was there,
\* False and the table as it was if not.
C26_DeleteStep(op, table) ==
    C26_Returned(op) =>
        IF call'.args[1] \in C23_Ids(db[table])
           THEN /\ call'.ret = TRUE
                /\ call'.args[1] \notin C23_Ids(db'[table])
           ELSE /\ call'.ret = FALSE
                /\ db'[table] = db[table]

\* clear_<x> on `table` returns the number of rows it removed.
C26_ClearStep(op, table) ==
    C26_Returned(op) => call'.ret = Len(db[table]) - Len(db'[table])

\* C26: delete_conversation(id) and delete_memory(id) return True exactly
\* when a row with that id existed and the call removed it, and False,
\* with the table unchanged, otherwise; clear_conversations and
\* clear_memories return the number of rows they removed.
C26_DeleteReports ==
    [][/\ C26_DeleteStep("delete_conversation", "conversations")
       /\ C26_DeleteStep("delete_memory", "memories")
       /\ C26_ClearStep("clear_conversations", "conversations")
       /\ C26_ClearStep("clear_memories", "memories")]_vars


\* The place of a subtask status on created -> assigned -> in_progress ->
\* completed.
C27_Rank(status) ==
    CASE status = "created" -> 0
      [] status = "assigned" -> 1
      [] status = "in_progress" -> 2
      [] status = "completed" -> 3

\* C27: over every step of a planner a subtask's status stays or moves
\* forward along created -> assigned -> in_progress -> completed, and a
\* subtask that is in_progress has been assigned to an agent.
C27_ForwardOnly ==
    [][\A task_id \in DOMAIN planner_tasks \cap DOMAIN planner_tasks' :
         \A k \in 1..Len(planner_tasks[task_id].subtasks) :
            LET before == planner_tasks[task_id].subtasks[k]
                after == planner_tasks'[task_id].subtasks[k]
            IN  /\ C27_Rank(after.status) >= C27_Rank(before.status)
                /\ after.status = "in_progress" => after.agent_id # None]_vars

\* An index that names one of the task's subtasks: 0..len(subtasks)-1.
C28_Valid(task_id, subtask_index) ==
    /\ task_id \in DOMAIN planner_tasks
    /\ subtask_index >= 0
    /\ subtask_index < Len(planner_tasks[task_id].subtasks)

\* The failure result of each of the three calls.
C28_Failure(op) ==
    CASE op = "assign_subtask" -> call'.ret = FALSE
      [] op = "execute_subtask" -> call'.ret = SubtaskNotFound
      [] op = "get_subtask_status" -> call'.ret = NoStatus

\* C28: assign_subtask, execute_subtask and get_subtask_status called with
\* an unknown task id or with an index outside 0..len(subtasks)-1 return
\* their failure result, do not raise, append no ledger row and leave
\* every subtask as it was.
C28_OutOfRangeNoOp ==
    [][(/\ ops' = ops + 1
        /\ call'.op \in {"assign_subtask", "execute_subtask",
                         "get_subtask_status"}
        /\ ~C28_Valid(call'.args[1], call'.args[2])) =>
            /\ call'.outcome = "returned"
            /\ C28_Failure(call'.op)
            /\ planning' = planning
            /\ planner_tasks' = planner_tasks]_vars

\* The ledger holds an entry under the task id: a planner task and a row.
C29_InLedger(task_id) ==
    /\ task_id \in DOMAIN planner_tasks'
    /\ \E i \in 1..Len(planning') :
          /\ Len(planning'[i].task_id) = Len(task_id)
          /\ planning'[i].task_id = task_id

\* C29: when create_task returns the id T the ledger holds a task entry
\* under T, and when execute_task(T) returns with all four agent types
\* available the entry of T holds a pseudo-subtask for each of the four
\* dispatches.
C29_LedgerMirrors ==
    [][\A f \in DOMAIN fr :
         /\ (fr'[f] # fr[f] /\ fr'[f].op = "create_task"
                /\ fr'[f].outcome = "returned") =>
                C29_InLedger(fr'[f].ret_id)
         /\ (fr'[f] # fr[f] /\ fr'[f].op = "execute_task"
                /\ fr'[f].pc = "idle" /\ fr'[f].outcome = "returned"
                /\ \A t \in AGENT_TYPE_VALUES : managed_agents[t] # None) =>
                /\ C29_InLedger(fr'[f].task)
                /\ Len(planner_tasks'[fr'[f].task].subtasks) >= 4]_vars

\* The ledger rows that belong to a task: the rows under its id and the
\* rows under the ids of its subtasks.
C30_Belongs(row, task_id) ==
    \/ Len(row.task_id) = 2 /\ row.task_id = task_id
    \/ Len(row.task_id) = 3 /\ row.task_id[1] = task_id

C30_Ids(rows) == [i \in 1..Len(rows) |-> rows[i].id]

\* C30: get_task_history(task_id) returns, in creation order, every
\* ledger row that belongs to the task: its creation row and status
\* updates, and the rows of its subtasks (decomposition, assignment,
\* execution).
C30_HistoryComplete ==
    (call.op = "get_task_history" /\ call.outcome = "returned") =>
        C30_Ids(call.ret) =
            C30_Ids(SelectSeq(planning,
                LAMBDA row : C30_Belongs(row, call.args[1])))

\* The worker type of each hop of a discussion, in order.
C31_HopTypes == <<RESEARCH, PLANNING, EXECUTION>>

\* The prompt of hop n as the messages recorded before it determine it.
C31_Prompt(d, n) ==
    CASE n = 1 -> d.prompt
      [] n = 2 -> PlanningPrompt(d.messages[2].message)
      [] n = 3 -> ExecutionPrompt(d.messages[2].message,
                                  d.messages[4].message)

\* The messages of a discussion are whole hops in the order research,
\* planning, execution: system -> worker with the hop's prompt, then
\* worker -> system with its response.
C31_Chain(d) ==
    /\ Len(d.messages) \in {0, 2, 4, 6}
    /\ \A n \in 1..3 :
          2 * n <= Len(d.messages) =>
             LET sent == d.messages[2 * n - 1]
                 got == d.messages[2 * n]
             IN  /\ sent.sender_id = SYSTEM
                 /\ AgentType(sent.recipient_id) = C31_HopTypes[n]
                 /\ sent.message = C31_Prompt(d, n)
                 /\ got.sender_id = sent.recipient_id
                 /\ got.recipient_id = SYSTEM

\* C31: a discussion is a strictly sequential chain of three hops, each
\* prompt embedding the responses received before it; a discussion is
\* inactive exactly when it has all six messages and a concluded_at time,
\* and a call of initiate_discussion that has returned left its discussion
\* in that state.
C31_SequentialChain ==
    /\ \A id \in DOMAIN discussions :
          LET d == discussions[id]
          IN  /\ C31_Chain(d)
              /\ ~d.active <=> Len(d.messages) = 6
              /\ ~d.active <=> d.concluded_at.set
    /\ \A f \in DOMAIN fr :
          (fr[f].op = "initiate_discussion" /\ fr[f].outcome = "returned") =>
              /\ fr[f].discussion \in DOMAIN discussions
              /\ ~discussions[fr[f].discussion].active

\* C31 witness: a direct initiate_discussion has returned and its three
\* workers answered with replies of their own.
C31_Witness ==
    \E f \in DOMAIN fr :
        /\ fr[f].op = "initiate_discussion"
        /\ fr[f].outcome = "returned"
        /\ LET d == discussions[fr[f].discussion]
           IN  /\ Len(d.messages) = 6
               /\ \A n \in 1..3 : d.messages[2 * n].message.kind = "reply"

\* A call that takes a task id has just been made with an id the hub does
\* not hold (or get_discussion with an unknown discussion id).
C32_UnknownId(f) ==
    /\ Idle(f)
    /\ fr'[f] # fr[f]
    /\ \/ /\ fr'[f].op \in {"execute_task", "improve_task_results",
                            "initiate_discussion", "get_task"}
          /\ fr'[f].task \notin DOMAIN tasks
       \/ /\ fr'[f].op = "get_discussion"
          /\ fr'[f].discussion \notin DOMAIN discussions

\* The error map or the None that stands for "not found".
C32_Sentinel(frame) ==
    IF frame.op \in {"get_task", "get_discussion"}
       THEN frame.none
       ELSE frame.ret = TaskNotFound(frame.task)

\* C32: execute_task, improve_task_results, initiate_discussion, get_task
\* and get_discussion answer an unknown id by returning an error result or
\* None, never by raising, and leave tasks, discussions, quality
\* assessments and the log as they were.
C32_UnknownIdSentinel ==
    [][\A f \in DOMAIN fr :
         C32_UnknownId(f) =>
            /\ fr'[f].pc = "idle"
            /\ fr'[f].outcome = "returned"
            /\ C32_Sentinel(fr'[f])
            /\ UNCHANGED <<tasks, discussions, quality_assessments, log>>]_vars

\* The executions a call of improve_task_results has begun beyond the
\* first one of a task that was not FINISHED when the call began.
C33_ReExecutions(frame) ==
    frame.execs - (IF frame.state0 \notin {"none", FINISHED} THEN 1 ELSE 0)

\* The flow goes from the body of improve_task_results into another
\* execute_task.
C33_ReExecutes(f) ==
    /\ fr[f].op = "improve_task_results"
    /\ fr[f].pc # "idle"
    /\ fr'[f].execs = fr[f].execs + 1

\* The critic result the task holds.
C33_Critique(task_id) ==
    IF CRITIC \in DOMAIN tasks[task_id].results
       THEN tasks[task_id].results[CRITIC] ELSE NoCritique

\* C33 (steps): a re-execution inside improve_task_results starts right
\* when the discussion the call has just run for the task is concluded,
\* and the seed prompt of that discussion embeds the critic result of the
\* execution before.
C33_ReExecutionStep(f) ==
    C33_ReExecutes(f) =>
        /\ fr[f].pc = "discuss_execution"
        /\ fr[f].discussion \in DOMAIN discussions
        /\ LET d == discussions'[fr[f].discussion]
           IN  /\ ~d.active
               /\ d.task_id = fr[f].task
               /\ d.prompt.task = fr[f].task
               /\ d.prompt.critique = C33_Critique(fr[f].task)

\* The discussions a call has created are its re-executions, plus the one
\* it is in or has raised in.
C33_Counted(f) ==
    (fr'[f].op = "improve_task_results" /\ fr'[f].task \in DOMAIN tasks') =>
        IF fr'[f].outcome = "returned" \/ fr'[f].pc \in DispatchTypes
              \/ fr'[f].pc \in {"barrier", "loop"}
           THEN fr'[f].cycles = C33_ReExecutions(fr'[f])
           ELSE fr'[f].cycles \in {C33_ReExecutions(fr'[f]),
                                   C33_ReExecutions(fr'[f]) + 1}

C34_Satisfied(quality_score, iterations, min_quality_score, max_iterations) ==
    \/ ~ScoreLess(quality_score, min_quality_score)
    \/ iterations >= max_iterations

\* improve_task_results is called on a FINISHED task that is satisfied.
C34_Called(f) ==
    /\ Idle(f)
    /\ fr'[f] # fr[f]
    /\ fr'[f].op = "improve_task_results"
    /\ fr'[f].task \in DOMAIN tasks
    /\ tasks[fr'[f].task].state = FINISHED
    /\ C34_Satisfied(tasks[fr'[f].task].quality_score,
                     tasks[fr'[f].task].iterations,
                     fr'[f].min_quality_score, fr'[f].max_iterations)

\* ... and the call is at its loop test without having executed anything.
C34_AtLoop(f) ==
    /\ fr[f].op = "improve_task_results"
    /\ fr[f].pc = "loop"
    /\ fr[f].execs = 0
    /\ fr[f].cycles = 0
    /\ fr'[f] # fr[f]
    /\ C34_Satisfied(fr[f].quality_score, fr[f].iterations,
                     fr[f].min_quality_score, fr[f].max_iterations)

\* C34: improve_task_results on a task that is FINISHED and whose score is
\* at least min_quality, or whose iterations have reached max_iterations,
\* goes to its loop test and returns the task's results from there; the
\* task records, the discussions and the log stay as they are.
C34_NothingToImprove ==
    [][\A f \in DOMAIN fr :
         /\ C34_Called(f) =>
               /\ fr'[f].pc = "loop"
               /\ fr'[f].execs = 0
               /\ UNCHANGED <<tasks, discussions, log, quality_assessments>>
         /\ C34_AtLoop(f) =>
               /\ fr'[f].pc = "idle"
               /\ fr'[f].outcome = "returned"
               /\ fr'[f].ret = tasks[fr[f].task].results
               /\ fr'[f].cycles = 0
               /\ fr'[f].execs = 0
               /\ UNCHANGED <<tasks, discussions, log, quality_assessments>>]_vars

\* C34 witness: such a call has returned although the score is below
\* min_quality, because the iteration budget was used up.
C34_Witness ==
    \E f \in DOMAIN fr :
        /\ fr[f].op = "improve_task_results"
        /\ fr[f].outcome = "returned"
        /\ fr[f].state0 = FINISHED
        /\ fr[f].execs = 0
        /\ ScoreLess(fr[f].quality_score, fr[f].min_quality_score)
        /\ fr[f].iterations >= fr[f].max_iterations

\* Two scores are the same number.
C35_SameScore(a, b) ==
    /\ a # NoScore
    /\ b # NoScore
    /\ a.num * b.den = b.num * a.den

\* C35: the assessments are one record per task id, and a task that is
\* FINISHED has the score of the assessment stored under its id.
C35_ScoreIsAssessment ==
    \A task_id \in DOMAIN tasks :
        tasks[task_id].state = FINISHED =>
            /\ task_id \in DOMAIN quality_assessments
            /\ C35_SameScore(tasks[task_id].quality_score,
                             quality_assessments[task_id].score)

\* C36: in every planner task the subtask at position i (from 0) has the
\* id <task-id>_subtask_<i>, so the ids of one task's subtasks differ.
C36_SubtaskIds ==
    \A task_id \in DOMAIN planner_tasks :
        LET subtasks == planner_tasks[task_id].subtasks
        IN  /\ \A k \in 1..Len(subtasks) :
                  subtasks[k].id = SubtaskId(task_id, k - 1)
            /\ \A j, k \in 1..Len(subtasks) :
                  subtasks[j].id = subtasks[k].id => j = k

\* The moves a task's state may make.
C37_Moves == {<<IDLE, RUNNING>>, <<RUNNING, FINISHED>>, <<FINISHED, RUNNING>>}

\* The state of each task stays or makes one of the three moves.
C37_Step ==
    \A task_id \in DOMAIN tasks :
        /\ task_id \in DOMAIN tasks'
        /\ \/ tasks'[task_id].state = tasks[task_id].state
           \/ <<tasks[task_id].state, tasks'[task_id].state>> \in C37_Moves

\* A task is IDLE iff it has never been executed, and lacks a score only
\* while it is IDLE or RUNNING in its first execution.
C37_Shape ==
    \A task_id \in DOMAIN tasks :
        LET task == tasks[task_id]
        IN  /\ task.state \in {IDLE, RUNNING, FINISHED}
            /\ task.state = IDLE <=> task.iterations = 0
            /\ task.quality_score = NoScore =>
                  \/ task.state = IDLE
                  \/ task.state = RUNNING /\ task.iterations = 1

\* C37: a task's state changes only along IDLE -> RUNNING, RUNNING ->
\* FINISHED and FINISHED -> RUNNING; a task is IDLE iff its iteration count
\* is 0, and its quality score is unset only while it is IDLE or RUNNING in
\* its first execution.
C37_TaskStates ==
    [][C37_Step /\ C37_Shape /\ C37_Shape']_vars

\* The invocations of execute_task(task_id) that begin in this step.
C38_Begun(task_id) ==
    {f \in DOMAIN fr :
        /\ Idle(f)
        /\ fr'[f].op = "execute_task"
        /\ fr'[f].task = task_id
        /\ fr'[f].pc # "idle"}

\* Every invocation that begins adds one to the task's iteration count,
\* and nothing else changes the count.
C38_Counted ==
    \A task_id \in DOMAIN tasks :
        tasks'[task_id].iterations =
            tasks[task_id].iterations + Cardinality(C38_Begun(task_id))

\* No invocation is running and none has raised.
C38_AllEnded ==
    /\ faults = 0
    /\ \A f \in DOMAIN fr : Idle(f) /\ fr[f].outcome # "raised"

\* Once its invocations have ended, an executed task is FINISHED with all
\* four results.
C38_Settled ==
    C38_AllEnded =>
        \A task_id \in DOMAIN tasks :
            tasks[task_id].iterations > 0 =>
                /\ tasks[task_id].state = FINISHED
                /\ DOMAIN tasks[task_id].results = AGENT_TYPE_VALUES

C39_Elapsed(key) ==
    /\ key \in DOMAIN memory
    /\ ~Live(memory[key], now)

\* This step is an update(key, ...) call.
C39_IsUpdate(key) ==
    /\ cret'.op = "update"
    /\ cret'.key = key
    /\ UNCHANGED <<now, sweep>>
    /\ <<memory, cret>>' # <<memory, cret>>

\* C39: once the ttl of a key's entry has elapsed, the key has a live
\* entry again only through a new add; update on it returns False and
\* does not revive it.
C39_ExpiredStaysDead ==
    [][\A key \in Keys :
         C39_Elapsed(key) =>
            /\ (key \in DOMAIN memory' /\ Live(memory'[key], now')) =>
                   (cret'.op = "add" /\ cret'.key = key)
            /\ C39_IsUpdate(key) => ~cret'.ok]_vars


\* A broadcast_message call that was passed a non-empty exclude list has
\* ended in flow f (a call without a list has none of the caller's to
\* change).
C40_PassedList(f) ==
    /\ fr[f].op = "broadcast_message"
    /\ fr[f].exclude0 # << >>

\* C40: broadcast_message leaves the exclude list the caller passed as it
\* was, so that the same list passed to a later broadcast from another
\* sender excludes no earlier sender.
C40_ExcludeListUnchanged ==
    \A f \in DOMAIN fr :
        C40_PassedList(f) => fr[f].exclude_ids = fr[f].exclude0

=============================================================================
